---- MODULE Spec2Model ----
(***************************************************************************)
(* The agent execution engine of agentbench: run_agent_attempt              *)
(* (agent_runner.py) validates the baseline (tasks/validator.py), then runs *)
(* AgentLoop.run (agents/loop.py) with an arbitrary agent and an arbitrary  *)
(* sandbox, or ScriptedAgent.run (agents/scripted.py), and assembles the    *)
(* attempt record.  The events.jsonl file is written through EventLogger    *)
(* (util/events.py) and append_jsonl (util/jsonl.py).                       *)
(*                                                                         *)
(* Python Optional[int] values are sets: {} is None, {n} is the int n.      *)
(* Time is counted in abstract ticks of the wall clock.                     *)
(***************************************************************************)
EXTENDS Integers, Sequences, FiniteSets, TLC

\* ---------------------------------------------------------------- bounds
MaxSteps == 3          \* largest configured budget.max_steps explored
MaxThreshold == 2      \* largest configured repeated_failure_threshold explored
MaxTimeSec == 1        \* configured budget.max_time_sec, in clock ticks
MaxEnvSteps == 2       \* largest budget.max_steps explored under SpecEnv, SpecShort
MaxPathLen == 4        \* longest path string given to resolve_safe_path, in tokens
MaxFaults == 1         \* most appends to events.jsonl that fail in one run

\* ------------------------------------------------------ program constants
MinSteps == 1          \* AgentBudget.max_steps ge=1
MinThreshold == 2      \* AgentBudget.repeated_failure_threshold ge=2

None == {}
Some(n) == {n}

\* What a finished sandbox command leaves behind: its exit code (0 pass,
\* 1 tests failed, 2 collection error) and the text that
\* _read_and_truncate_output returns for it.
SandboxRuns ==
    { [exit_code |-> 0, output |-> ""],
      [exit_code |-> 1, output |-> "FAILED a"],
      [exit_code |-> 2, output |-> "ERROR b"] }
NoOutput == "<None>"

StopReason ==
    {"SUCCESS", "MAX_STEPS", "MAX_TIME", "AGENT_GAVE_UP", "REPEATED_FAILURE",
     "TOOL_ERROR", "LLM_ERROR", "INTERRUPTED"}
NoStopReason == "<None>"

ToolName == {"LIST_FILES", "READ_FILE", "SEARCH", "APPLY_PATCH", "RUN"}

\* ------------------------------------------------------------- commands
\* task.run.command of the task under test.
TestCommand == "pytest -q"

\* Shell commands an agent may put into a RUN request.
Commands == {"pytest -q", "cd repo &&  pytest -q", "ls", "python -m pytest tests"}

Chars(cmd) ==
    CASE cmd = "pytest -q" -> <<"p","y","t","e","s","t"," ","-","q">>
      [] cmd = "cd repo &&  pytest -q" ->
            <<"c","d"," ","r","e","p","o"," ","&","&"," "," ",
              "p","y","t","e","s","t"," ","-","q">>
      [] cmd = "ls" -> <<"l","s">>
      [] cmd = "python -m pytest tests" ->
            <<"p","y","t","h","o","n"," ","-","m"," ",
              "p","y","t","e","s","t"," ","t","e","s","t","s">>

\* str.split(): the maximal runs of non-blank characters.
RECURSIVE SplitFrom(_, _, _, _)
SplitFrom(cs, i, cur, acc) ==
    IF i > Len(cs)
    THEN IF cur = <<>> THEN acc ELSE Append(acc, cur)
    ELSE IF cs[i] = " "
         THEN SplitFrom(cs, i + 1, <<>>, IF cur = <<>> THEN acc ELSE Append(acc, cur))
         ELSE SplitFrom(cs, i + 1, Append(cur, cs[i]), acc)

Split(cs) == SplitFrom(cs, 1, <<>>, <<>>)

\* " ".join(tokens)
RECURSIVE Join(_)
Join(toks) ==
    IF toks = <<>> THEN <<>>
    ELSE IF Len(toks) = 1 THEN toks[1]
    ELSE toks[1] \o <<" ">> \o Join(Tail(toks))

\* " ".join(command.split())
Normalized(cmd) == Join(Split(Chars(cmd)))

\* Python's `needle in hay` on strings.
Contains(hay, needle) ==
    \E i \in 0..(Len(hay) - Len(needle)) :
        SubSeq(hay, i + 1, i + Len(needle)) = needle

_is_test_command(command) ==
    LET cmd_normalized == Normalized(command)
        test_normalized == Normalized(TestCommand)
    IN  Contains(cmd_normalized, test_normalized) \/ cmd_normalized = test_normalized

\* (^|\s)(pytest|python\s+-m\s+pytest|python3\s+-m\s+pytest)(\s|$) searched in
\* the normalized command: blanks are single there, so the pattern matches
\* whole tokens.
PytestPattern(toks) ==
    LET pytest == <<"p","y","t","e","s","t">>
        python == <<"p","y","t","h","o","n">>
        python3 == <<"p","y","t","h","o","n","3">>
        dash_m == <<"-","m">>
    IN  \E i \in 1..Len(toks) :
            \/ toks[i] = pytest
            \/ /\ toks[i] \in {python, python3}
               /\ i + 2 <= Len(toks)
               /\ toks[i + 1] = dash_m
               /\ toks[i + 2] = pytest

_needs_setup_for_command(command) ==
    IF _is_test_command(command) THEN TRUE
    ELSE PytestPattern(Split(Normalized(command)))

\* ------------------------------------------------------------ the values
\* budget: the AgentBudget; task: whether task.setup.commands is non-empty, and
\* task.agent.entrypoint.
\* pc: the place run_agent_attempt, AgentLoop.run or ScriptedAgent.run has
\* reached.
\* state: the AgentState; action: the AgentAction being carried out.
\* result: the AgentResult returned; ret_site: the return statement taken.
\* _tool_step_counter, _setup_completed: the fields of AgentLoop.
\* elapsed: wall clock since started_at.
\* decide_calls: calls of agent.decide; tool_started: tool_call_started events.
\* initial_exit: exit code _run_initial_tests returned.
\* test_passed: the task's test command has been executed and exited 0.
\* attempt: the AttemptRecord's result part.
\* validation_result: what validate_baseline returned, until the agent starts.
\* event_logger: the EventLogger's _step_counter and the records that are in
\* events.jsonl.  faults: appends to events.jsonl that are still going to fail.
\* artifacts: the step_NNNN.patch files written by APPLY_PATCH executions that
\* returned SUCCESS, oldest first.
\* sandbox_calls: the sandbox.run calls the agent made in the step just taken.
VARIABLES budget, task, pc, state, action, result, ret_site,
          _tool_step_counter, _setup_completed, elapsed,
          decide_calls, tool_started, initial_exit, test_passed, attempt,
          validation_result, event_logger, faults, artifacts, sandbox_calls

attempt_vars == <<budget, task, pc, state, action, result, ret_site,
                  _tool_step_counter, _setup_completed, elapsed,
                  decide_calls, tool_started, initial_exit, test_passed, attempt,
                  validation_result, event_logger, faults, artifacts,
                  sandbox_calls>>

\* The components that are specified on their own.
\* relative_path: the path string given to resolve_safe_path, as its tokens.
\* candidate: what resolve_safe_path did with it: nothing yet, the error it
\* raised, or the path it returned.
\* allow_symlinks: the flag given with it.
VARIABLES relative_path, allow_symlinks, candidate

path_vars == <<relative_path, allow_symlinks, candidate>>

\* container_id, _network_state: the fields of one PersistentDockerSandbox.
\* exec_history: for each exec call so far, the network it asked for, the
\* container its command ran in and the network that container was attached to.
\* docker_containers: the containers docker holds for this sandbox, each with
\* the network it is attached to.  docker_started: how many it has started.
\* run_pc: where the run that uses the sandbox is: before start, in the try
\* block, in the finally block, over, or using the sandbox again afterwards.
VARIABLES container_id, _network_state, exec_history, docker_containers, docker_started, run_pc

sandbox_vars == <<container_id, _network_state, exec_history, docker_containers, docker_started, run_pc>>

\* strict_patch: AGENTBENCH_STRICT_PATCH as apply_patch reads it.
\* unified_diff: params.unified_diff, the patch text of one APPLY_PATCH call.
\* workspace: the content of the workspace files the patch may name.
\* patch_result: what the call returned and did, or that it has not run.
VARIABLES strict_patch, unified_diff, workspace, patch_result

patch_vars == <<strict_patch, unified_diff, workspace, patch_result>>

\* shared_file: the events file several runs log to: missing, or its chunks.
\* lock_holder: the run inside `with lock` of append_jsonl, if any.
\* writer_pc, writer_fd: where each run is, and what its open file refers to.
\* appended: how many append_jsonl calls of each run have returned True.
VARIABLES shared_file, lock_holder, writer_pc, writer_fd, appended

writers_vars == <<shared_file, lock_holder, writer_pc, writer_fd, appended>>

\* llm_response, llm_history: the response and the state.tool_history given
\* to _parse_llm_response.  llm_action: the AgentAction it returned, if it ran.
VARIABLES llm_response, llm_history, llm_action

parse_vars == <<llm_response, llm_history, llm_action>>

\* baseline_input: how the commands of one validate_baseline call come out.
\* stages_run: the stages the call has executed so far, in order.
\* baseline_result: the ValidationResult, once the call is over.
VARIABLES baseline_input, stages_run, baseline_result

stages_vars == <<baseline_input, stages_run, baseline_result>>

\* max_retries: retry_policy.max_retries of the client's configuration.
\* http_attempts: how each HTTP attempt of one complete call came out, in order.
\* complete_result: how the complete call ended, once it is over.
VARIABLES max_retries, http_attempts, complete_result

retry_vars == <<max_retries, http_attempts, complete_result>>

component_vars == <<path_vars, sandbox_vars, patch_vars, writers_vars, parse_vars, stages_vars, retry_vars>>

\* What a step of one component leaves alone.
outside_path == <<attempt_vars, sandbox_vars, patch_vars, writers_vars, parse_vars, stages_vars, retry_vars>>

outside_sandbox == <<attempt_vars, path_vars, patch_vars, writers_vars, parse_vars, stages_vars, retry_vars>>

outside_patch == <<attempt_vars, path_vars, sandbox_vars, writers_vars, parse_vars, stages_vars, retry_vars>>

outside_writers == <<attempt_vars, path_vars, sandbox_vars, patch_vars, parse_vars, stages_vars, retry_vars>>

outside_parse == <<attempt_vars, path_vars, sandbox_vars, patch_vars, writers_vars, stages_vars, retry_vars>>

outside_stages == <<attempt_vars, path_vars, sandbox_vars, patch_vars, writers_vars, parse_vars, retry_vars>>

outside_retry == <<attempt_vars, path_vars, sandbox_vars, patch_vars, writers_vars, parse_vars, stages_vars>>

vars == <<attempt_vars, component_vars>>

Max(a, b) == IF a >= b THEN a ELSE b
Min(a, b) == IF a <= b THEN a ELSE b
Last(s) == s[Len(s)]

ToolRequest(tool, command) == [tool |-> tool, command |-> command]

NoRequest == [tool |-> "<None>", command |-> ""]

ToolResult(tool, status, error_type, exit_code, has_data, combined_output, is_test_command, patch_path, file_output) ==
    [tool |-> tool, status |-> status, error_type |-> error_type,
     exit_code |-> exit_code, has_data |-> has_data,
     combined_output |-> combined_output,
     is_test_command |-> is_test_command, patch_path |-> patch_path,
     file_output |-> file_output]

AgentAction(decision, tool_request, stop_reason) ==
    [decision |-> decision, tool_request |-> tool_request,
     stop_reason |-> stop_reason]

NoAction == AgentAction("<None>", NoRequest, NoStopReason)

AgentState(step_number, tool_history, patches_applied, last_test_exit_code, last_test_output, budget_remaining_steps, budget_remaining_sec) ==
    [step_number |-> step_number, tool_history |-> tool_history,
     patches_applied |-> patches_applied,
     last_test_exit_code |-> last_test_exit_code,
     last_test_output |-> last_test_output,
     budget_remaining_steps |-> budget_remaining_steps,
     budget_remaining_sec |-> budget_remaining_sec]

AgentResult(success, stop_reason, steps_taken, patches_applied, final_test_exit_code, final_test_passed) ==
    [success |-> success, stop_reason |-> stop_reason,
     steps_taken |-> steps_taken, patches_applied |-> patches_applied,
     final_test_exit_code |-> final_test_exit_code,
     final_test_passed |-> final_test_passed]

NoResult == AgentResult(FALSE, NoStopReason, 0, <<>>, None, FALSE)

NoAttempt == [passed |-> FALSE, exit_code |-> None,
              failure_reason |-> "<unset>", stop_reason |-> NoStopReason]

\* ------------------------------------------------------------ EventLogger
\* A record of events.jsonl: the fields the properties read.  request_id is
\* the payload's request_id, NoRequestId for the kinds that carry none.
Event(step_id, event_type, request_id) ==
    [step_id |-> step_id, event_type |-> event_type, request_id |-> request_id]

NoRequestId == <<"<None>", 0>>

\* EventLogger.__init__ with clear_existing: counter 0 and no events file.
NewEventLogger == [_step_counter |-> 0, file |-> <<>>]

\* The record is in the file after a successful append; on OSError the
\* function returns False and the file is as before.
append_jsonl(file, record, ok) == IF ok THEN Append(file, record) ELSE file

\* EventLogger.log: next_step_id, then append_jsonl, whose return value is
\* not looked at.
log(lg, event_type, request_id, ok) ==
    LET step_id == lg._step_counter + 1
    IN  [_step_counter |-> step_id,
         file |-> append_jsonl(lg.file, Event(step_id, event_type, request_id), ok)]

\* The log calls evs[i], evs[i+1], ... in order; the appends whose index is in
\* failed raise OSError.
RECURSIVE LogAll(_, _, _, _)
LogAll(lg, evs, i, failed) ==
    IF i > Len(evs) THEN lg
    ELSE LogAll(log(lg, evs[i][1], evs[i][2], i \notin failed), evs, i + 1, failed)

\* The sets of at most k of n appends that may fail.
RECURSIVE Failures(_, _)
Failures(n, k) ==
    IF k = 0 THEN {{}}
    ELSE LET fewer == Failures(n, k - 1)
         IN  fewer \cup { f \cup {i} : f \in fewer, i \in 1..n }

\* ------------------------------------------------------ validate_baseline
ValidationResult(valid, exit_code, error_reason) ==
    [valid |-> valid, exit_code |-> exit_code, error_reason |-> error_reason]

NoValidation == ValidationResult(FALSE, -1, "<unset>")

\* The combined stdout and stderr of a baseline test run, line by line: a
\* line is a pytest summary line (FAILED or ERROR with a node id) or other
\* text.
BaselineOutputs ==
    { <<>>,
      << <<"FAILED", "t1">> >>,
      << <<"FAILED", "t1">>, <<"FAILED", "t1">> >>,
      << <<"FAILED", "t2">>, <<"FAILED", "t1">> >>,
      << <<"FAILED", "t1">>, <<"FAILED", "t2">> >>,
      << <<"text", "boom">> >>,
      << <<"text", "bang">> >> }

\* _failure_signature: the set of the FAILED/ERROR node ids when there are
\* any (sorted(set(...)) drops order and repeats), "empty-output" for no
\* output, else the digest of the whole text.
_failure_signature(output) ==
    LET nodeids == { output[i] : i \in { j \in 1..Len(output) :
                                             output[j][1] \in {"FAILED", "ERROR"} } }
    IN  IF nodeids # {} THEN <<"nodeids", nodeids>>
        ELSE IF output = <<>> THEN <<"empty-output", {}>>
        ELSE <<"sha256", {output}>>

\* What the stages of one baseline validation may do: exit codes of clone,
\* checkout, setup, the post-setup git inspection and the test command;
\* whether setup left tracked files modified; whether the validation hints
\* mismatch; the output of the test command; the rerun (None when skipped for
\* lack of time) and its output.
BaselineRuns(has_setup) ==
    { x \in [clone_exit : {0, 128}, checkout_exit : {0, 1},
             setup_exit : {0, 1, 124}, inspect_exit : {0, 128},
             dirty : BOOLEAN, run_exit : {0, 1, 2}, mismatch : BOOLEAN,
             run_output : BaselineOutputs,
             rerun_exit : {None, Some(0), Some(1)},
             rerun_output : BaselineOutputs] :
          ~has_setup => x.setup_exit = 0 }

\* The combined_output values the loop over state.tool_history collects.
RunOutputs(tool_history) ==
    LET kept == SelectSeq(tool_history,
                    LAMBDA e : /\ e[1].tool = "RUN"
                               /\ e[2].has_data
                               /\ e[2].combined_output # NoOutput)
    IN  [i \in 1..Len(kept) |-> kept[i][2].combined_output]

\* RepeatedFailure with the length test off by one.
RepeatedFailure_strict(outputs, threshold) ==
    /\ Len(outputs) > threshold
    /\ LET tail == SubSeq(outputs, Len(outputs) - threshold + 1, Len(outputs))
       IN  /\ tail # <<>>
           /\ \A i \in 1..Len(tail) : tail[i] = tail[1]

RepeatedFailure(outputs, threshold) ==
    /\ Len(outputs) >= threshold
    /\ LET tail == SubSeq(outputs, Len(outputs) - threshold + 1, Len(outputs))
       IN  /\ tail # <<>>
           /\ \A i \in 1..Len(tail) : tail[i] = tail[1]

\* _check_stop_conditions with the step budget tested before the test result.
_check_stop_conditions_steps_first(s, threshold) ==
    IF s.budget_remaining_steps <= 0 THEN "MAX_STEPS"
    ELSE IF s.last_test_exit_code = Some(0) THEN "SUCCESS"
    ELSE IF s.budget_remaining_sec <= 0 THEN "MAX_TIME"
    ELSE IF RepeatedFailure(RunOutputs(s.tool_history), threshold)
         THEN "REPEATED_FAILURE"
    ELSE NoStopReason

\* _check_stop_conditions that stops while one step is still left.
_check_stop_conditions_early(s, threshold) ==
    IF s.last_test_exit_code = Some(0) THEN "SUCCESS"
    ELSE IF s.budget_remaining_steps <= 1 THEN "MAX_STEPS"
    ELSE IF s.budget_remaining_sec <= 0 THEN "MAX_TIME"
    ELSE IF RepeatedFailure(RunOutputs(s.tool_history), threshold)
         THEN "REPEATED_FAILURE"
    ELSE NoStopReason

_check_stop_conditions(s, threshold) ==
    IF s.last_test_exit_code = Some(0) THEN "SUCCESS"
    ELSE IF s.budget_remaining_steps <= 0 THEN "MAX_STEPS"
    ELSE IF s.budget_remaining_sec <= 0 THEN "MAX_TIME"
    ELSE IF RepeatedFailure(RunOutputs(s.tool_history), threshold)
         THEN "REPEATED_FAILURE"
    ELSE NoStopReason

\* ---------------------------------------------------------- _update_state
\* _update_state that records a patch whatever the status of the result.
_update_state_any_status(s, a, r, now, max_time_sec) ==
    LET is_call == a.decision = "CALL_TOOL"
        output == IF r.has_data /\ r.combined_output \notin {NoOutput, ""}
                  THEN r.combined_output
                  ELSE r.file_output
        stored == IF is_call /\ r.tool = "RUN" /\ r.has_data
                  THEN [r EXCEPT !.combined_output = output]
                  ELSE r
    IN  AgentState(
            s.step_number + 1,
            IF is_call THEN Append(s.tool_history, <<a.tool_request, stored>>)
                       ELSE s.tool_history,
            IF /\ is_call
               /\ a.tool_request.tool = "APPLY_PATCH"
            THEN Append(s.patches_applied, r.patch_path)
            ELSE s.patches_applied,
            IF is_call /\ a.tool_request.tool = "RUN"
            THEN r.exit_code ELSE s.last_test_exit_code,
            IF is_call /\ a.tool_request.tool = "RUN"
            THEN output ELSE s.last_test_output,
            Max(0, s.budget_remaining_steps - 1),
            Max(0, max_time_sec - now))

\* now: the wall clock (elapsed since started_at) when the state is built.
_update_state(s, a, r, now, max_time_sec) ==
    LET is_call == a.decision = "CALL_TOOL"
        output == IF r.has_data /\ r.combined_output \notin {NoOutput, ""}
                  THEN r.combined_output
                  ELSE r.file_output
        stored == IF is_call /\ r.tool = "RUN" /\ r.has_data
                  THEN [r EXCEPT !.combined_output = output]
                  ELSE r
    IN  AgentState(
            s.step_number + 1,
            IF is_call THEN Append(s.tool_history, <<a.tool_request, stored>>)
                       ELSE s.tool_history,
            IF /\ is_call
               /\ a.tool_request.tool = "APPLY_PATCH"
               /\ r.status = "SUCCESS"
               /\ r.has_data
               /\ r.patch_path # None
            THEN Append(s.patches_applied, r.patch_path)
            ELSE s.patches_applied,
            IF is_call /\ a.tool_request.tool = "RUN"
            THEN r.exit_code ELSE s.last_test_exit_code,
            IF is_call /\ a.tool_request.tool = "RUN"
            THEN output ELSE s.last_test_output,
            Max(0, s.budget_remaining_steps - 1),
            Max(0, max_time_sec - now))

\* ------------------------------------------------------------ sandbox.run
\* One sandbox.run call: what is run (the setup commands or a command line)
\* and the network argument.
SandboxCall(kind, command, network) ==
    [kind |-> kind, command |-> command, network |-> network]

\* network= of the sandbox.run calls that run the setup commands.
SetupNetwork == "bridge"

\* network= of the sandbox.run call of _run_initial_tests for the test command.
InitialTestNetwork == "none"

\* run_tool that leaves the network open.
RunNetwork_bridge == "bridge"

\* network= of the sandbox.run call of run_tool.
RunNetwork == "none"

SetupCall == SandboxCall("setup", "<setup commands>", SetupNetwork)

\* ---------------------------------------------------------- _execute_tool
\* The result built by the `except Exception` handler of _execute_tool.
ExceptionResult(tool) ==
    ToolResult(tool, "ERROR", "Exception", None, FALSE, NoOutput, FALSE, None, "")

\* list_files, read_file, search: a result with data, an error result of the
\* tool, or an exception.
FileToolResults(tool) ==
    { ToolResult(tool, "SUCCESS", "<None>", None, TRUE, NoOutput, FALSE, None, ""),
      ToolResult(tool, "ERROR", "path_escape", None, FALSE, NoOutput, FALSE, None, ""),
      ExceptionResult(tool) }

\* apply_patch: success (the artifact diffs/step_NNNN.patch is recorded as
\* patch_path), patch_hunk_fail, or an exception.
ApplyPatchResults(step_id) ==
    { ToolResult("APPLY_PATCH", "SUCCESS", "<None>", None, TRUE, NoOutput, FALSE,
                 Some(step_id), ""),
      ToolResult("APPLY_PATCH", "ERROR", "patch_hunk_fail", None, FALSE, NoOutput,
                 FALSE, None, ""),
      ExceptionResult("APPLY_PATCH") }

\* run_tool followed by the annotation of result.data in _execute_tool.
RunToolResults(is_test_command) ==
    { ToolResult("RUN", IF run.exit_code = 0 THEN "SUCCESS" ELSE "ERROR",
                 IF run.exit_code = 0 THEN "<None>" ELSE "abnormal_exit",
                 Some(run.exit_code), TRUE, run.output, is_test_command, None,
                 run.output) :
          run \in SandboxRuns }
    \cup
    { ToolResult("RUN", "ERROR", kind, None, TRUE, "", is_test_command, None, "") :
          kind \in {"timeout", "sandbox_error"} }

\* The early return of _execute_tool when the setup command fails.
SetupFailedResults ==
    { ToolResult("RUN", "ERROR", "setup_failed", Some(run.exit_code), TRUE,
                 run.output, TRUE, None, run.output) :
          run \in { x \in SandboxRuns : x.exit_code # 0 } }

\* Every outcome of one _execute_tool call: the ToolResult, the value of
\* self._setup_completed afterwards, and the kinds of the events logged after
\* tool_call_started, in order.
_execute_tool(request, step_id, setup_completed, has_setup) ==
    IF request.tool \in {"LIST_FILES", "READ_FILE", "SEARCH"}
    THEN { [result |-> r, setup_completed |-> setup_completed,
            logged |-> <<"tool_call_finished">>, calls |-> <<>>] :
               r \in FileToolResults(request.tool) }
    ELSE IF request.tool = "APPLY_PATCH"
    THEN { [result |-> r,
            setup_completed |-> IF r.status = "SUCCESS" THEN FALSE ELSE setup_completed,
            logged |-> IF r.status = "SUCCESS"
                       THEN <<"patch_applied", "tool_call_finished">>
                       ELSE <<"tool_call_finished">>,
            calls |-> <<>>] :
               r \in ApplyPatchResults(step_id) }
    ELSE LET is_test_command == _is_test_command(request.command)
             needs_setup == _needs_setup_for_command(request.command)
             setup_needed == needs_setup /\ has_setup /\ ~setup_completed
             setup_logged == IF setup_needed
                             THEN <<"command_started", "command_finished">>
                             ELSE <<>>
             run_logged == IF is_test_command
                           THEN <<"tests_started", "tests_finished">>
                           ELSE <<"command_started", "command_finished">>
             setup_calls == IF setup_needed THEN <<SetupCall>> ELSE <<>>
             run_call == SandboxCall("run", request.command, RunNetwork)
         IN  { [result |-> r, setup_completed |-> setup_completed,
                logged |-> setup_logged, calls |-> setup_calls] :
                   r \in IF setup_needed THEN SetupFailedResults ELSE {} }
             \cup
             { [result |-> r, setup_completed |-> setup_completed \/ setup_needed,
                logged |-> setup_logged \o run_logged \o <<"tool_call_finished">>,
                calls |-> Append(setup_calls, run_call)] :
                   r \in RunToolResults(is_test_command) }
             \cup
             { [result |-> ExceptionResult("RUN"), setup_completed |-> setup_completed,
                logged |-> <<"tool_call_finished">>, calls |-> <<>>] }

\* The log calls of one _execute_tool call for the request with this
\* request_id: tool_call_started and tool_call_finished carry it.
ToolEvents(request_id, logged) ==
    << <<"tool_call_started", request_id>> >>
    \o [i \in 1..Len(logged) |->
            <<logged[i],
              IF logged[i] = "tool_call_finished" THEN request_id ELSE NoRequestId>>]

\* The run executed the task's test command and it exited 0.
TestCommandPassed(r) ==
    /\ r.tool = "RUN"
    /\ r.is_test_command
    /\ r.error_type # "setup_failed"
    /\ r.exit_code = Some(0)

\* ------------------------------------------------ _failure_from_stop_reason
\* The failure reason named after the stop reason.
_failure_from_stop_reason_same_name(stop_reason) ==
    CASE stop_reason = NoStopReason -> "<None>"
      [] stop_reason = "SUCCESS" -> "<None>"
      [] OTHER -> stop_reason

_failure_from_stop_reason(stop_reason) ==
    CASE stop_reason = NoStopReason -> "<None>"
      [] stop_reason = "SUCCESS" -> "<None>"
      [] stop_reason = "LLM_ERROR" -> "LLM_ERROR"
      [] stop_reason = "TOOL_ERROR" -> "TOOL_ERROR"
      [] stop_reason = "MAX_TIME" -> "TIMEOUT"
      [] stop_reason \in {"MAX_STEPS", "AGENT_GAVE_UP", "REPEATED_FAILURE"} ->
            "AGENT_GAVE_UP"
      [] stop_reason = "INTERRUPTED" -> "INTERRUPTED"
      [] OTHER -> "<None>"

\* FailureReason.from_pytest_exit_code, as the specification describes it.
from_pytest_exit_code(exit_code) ==
    CASE exit_code = 0 -> "<None>"
      [] exit_code = 1 -> "TESTS_FAILED"
      [] exit_code = 2 -> "COLLECTION_ERROR"
      [] OTHER -> "INTERNAL_ERROR"

\* validate_baseline whose rerun comparison looks at the exit code alone.
validate_baseline_exit_code_only(x) ==
    IF x.clone_exit # 0
    THEN ValidationResult(FALSE, x.clone_exit, "GIT_CLONE_FAILED")
    ELSE IF x.checkout_exit # 0
    THEN ValidationResult(FALSE, x.checkout_exit, "GIT_CHECKOUT_FAILED")
    ELSE IF x.setup_exit # 0
    THEN ValidationResult(FALSE, x.setup_exit,
                          IF x.setup_exit = 124 THEN "SETUP_TIMEOUT" ELSE "SETUP_FAILED")
    ELSE IF x.inspect_exit # 0
    THEN ValidationResult(FALSE, x.inspect_exit, "UNKNOWN")
    ELSE IF x.dirty
    THEN ValidationResult(FALSE, x.setup_exit, "SETUP_DIRTY_WORKTREE")
    ELSE IF x.run_exit = 0
    THEN ValidationResult(FALSE, x.run_exit, "BASELINE_NOT_FAILING")
    ELSE IF from_pytest_exit_code(x.run_exit) \notin {"<None>", "TESTS_FAILED"}
    THEN ValidationResult(FALSE, x.run_exit, from_pytest_exit_code(x.run_exit))
    ELSE IF x.mismatch
    THEN ValidationResult(FALSE, x.run_exit, "BASELINE_MISMATCH")
    ELSE IF /\ x.rerun_exit # None
            /\ x.rerun_exit # Some(x.run_exit)
    THEN ValidationResult(FALSE, CHOOSE c \in x.rerun_exit : TRUE, "BASELINE_FLAKY")
    ELSE ValidationResult(TRUE, x.run_exit, "<None>")

\* validate_baseline on the stage results x: the first failing stage sets the
\* failure reason and ends the validation; exit_code is the last one stored
\* with attempt.set_exit_code.
validate_baseline(x) ==
    IF x.clone_exit # 0
    THEN ValidationResult(FALSE, x.clone_exit, "GIT_CLONE_FAILED")
    ELSE IF x.checkout_exit # 0
    THEN ValidationResult(FALSE, x.checkout_exit, "GIT_CHECKOUT_FAILED")
    ELSE IF x.setup_exit # 0
    THEN ValidationResult(FALSE, x.setup_exit,
                          IF x.setup_exit = 124 THEN "SETUP_TIMEOUT" ELSE "SETUP_FAILED")
    ELSE IF x.inspect_exit # 0
    THEN ValidationResult(FALSE, x.inspect_exit, "UNKNOWN")
    ELSE IF x.dirty
    THEN ValidationResult(FALSE, x.setup_exit, "SETUP_DIRTY_WORKTREE")
    ELSE IF x.run_exit = 0
    THEN ValidationResult(FALSE, x.run_exit, "BASELINE_NOT_FAILING")
    ELSE IF from_pytest_exit_code(x.run_exit) \notin {"<None>", "TESTS_FAILED"}
    THEN ValidationResult(FALSE, x.run_exit, from_pytest_exit_code(x.run_exit))
    ELSE IF x.mismatch
    THEN ValidationResult(FALSE, x.run_exit, "BASELINE_MISMATCH")
    ELSE IF /\ x.rerun_exit # None
            /\ \/ x.rerun_exit # Some(x.run_exit)
               \/ _failure_signature(x.rerun_output) # _failure_signature(x.run_output)
    THEN ValidationResult(FALSE, CHOOSE c \in x.rerun_exit : TRUE, "BASELINE_FLAKY")
    ELSE ValidationResult(TRUE, x.run_exit, "<None>")

\* ------------------------------------------------------------------ Init
\* A run with budget.max_steps up to max_steps, in which up to max_faults
\* appends to events.jsonl fail.
InitWith(max_steps, max_faults) ==
    /\ budget \in [max_steps : MinSteps..max_steps,
                   max_time_sec : {MaxTimeSec},
                   repeated_failure_threshold : MinThreshold..MaxThreshold]
    /\ task \in [has_setup : BOOLEAN, entrypoint : {"llm_v0", "scripted"}]
    /\ faults \in 0..max_faults
    /\ pc = "baseline"
    /\ validation_result = NoValidation
    /\ event_logger = NewEventLogger
    /\ artifacts = <<>>
    /\ sandbox_calls = <<>>
    /\ state = AgentState(0, <<>>, <<>>, None, NoOutput, 0, 0)
    /\ action = NoAction
    /\ result = NoResult
    /\ ret_site = "<None>"
    /\ _tool_step_counter = 0
    /\ _setup_completed = FALSE
    /\ elapsed = 0
    /\ decide_calls = 0
    /\ tool_started = 0
    /\ initial_exit = None
    /\ test_passed = FALSE
    /\ attempt = NoAttempt

\* No call of resolve_safe_path is under way.
PathIdle ==
    /\ relative_path = <<>>
    /\ allow_symlinks = FALSE
    /\ candidate = <<"idle">>

\* A PersistentDockerSandbox as __init__ leaves it.
SandboxIdle ==
    /\ container_id = None
    /\ _network_state = "bridge"
    /\ exec_history = <<>>
    /\ docker_containers = <<>>
    /\ docker_started = 0
    /\ run_pc = "new"

\* No apply_patch call is under way.
PatchIdle ==
    /\ strict_patch = FALSE
    /\ unified_diff = <<>>
    /\ workspace = <<>>
    /\ patch_result = [status |-> "<idle>"]

\* No runs share an event log.
WritersIdle ==
    /\ shared_file = None
    /\ lock_holder = None
    /\ writer_pc = <<>>
    /\ writer_fd = <<>>
    /\ appended = <<>>

\* No response is being parsed.
ParseIdle ==
    /\ llm_response = "<None>"
    /\ llm_history = <<>>
    /\ llm_action = [decision |-> "<unparsed>"]

\* No validate_baseline call is followed stage by stage.
StagesIdle ==
    /\ baseline_input = <<>>
    /\ stages_run = <<>>
    /\ baseline_result = <<>>

\* No complete call of the LLM client is under way.
RetryIdle ==
    /\ max_retries = 0
    /\ http_attempts = <<>>
    /\ complete_result = <<>>

\* The separately specified components at rest.
ComponentsIdle == PathIdle /\ SandboxIdle /\ PatchIdle /\ WritersIdle /\ ParseIdle /\ StagesIdle /\ RetryIdle

\* One attempt, not started, for the specifications of single components.
AttemptIdle ==
    /\ InitWith(MinSteps, 0)
    /\ budget.repeated_failure_threshold = MinThreshold
    /\ task = [has_setup |-> FALSE, entrypoint |-> "llm_v0"]

\* Everything but one component at rest.
OutsidePathIdle == AttemptIdle /\ SandboxIdle /\ PatchIdle /\ WritersIdle /\ ParseIdle /\ StagesIdle /\ RetryIdle

OutsideSandboxIdle == AttemptIdle /\ PathIdle /\ PatchIdle /\ WritersIdle /\ ParseIdle /\ StagesIdle /\ RetryIdle

OutsidePatchIdle == AttemptIdle /\ PathIdle /\ SandboxIdle /\ WritersIdle /\ ParseIdle /\ StagesIdle /\ RetryIdle

OutsideWritersIdle == AttemptIdle /\ PathIdle /\ SandboxIdle /\ PatchIdle /\ ParseIdle /\ StagesIdle /\ RetryIdle

OutsideParseIdle == AttemptIdle /\ PathIdle /\ SandboxIdle /\ PatchIdle /\ WritersIdle /\ StagesIdle /\ RetryIdle

OutsideStagesIdle == AttemptIdle /\ PathIdle /\ SandboxIdle /\ PatchIdle /\ WritersIdle /\ ParseIdle /\ RetryIdle

OutsideRetryIdle == AttemptIdle /\ PathIdle /\ SandboxIdle /\ PatchIdle /\ WritersIdle /\ ParseIdle /\ StagesIdle

\* The file system takes every append.
Init == InitWith(MaxSteps, 0) /\ ComponentsIdle

\* Appends to events.jsonl may fail.
InitEnv == InitWith(MaxEnvSteps, MaxFaults) /\ ComponentsIdle

\* Attempts with the short budgets and no faults.
InitShort == InitWith(MaxEnvSteps, 0) /\ ComponentsIdle

\* The readings datetime.now() - started_at may give at the next state
\* update: the clock never runs backwards, and past max_time_sec the remaining
\* time is 0 whatever the clock says.
Clock == elapsed..budget.max_time_sec

\* The attempt record with the failure reason taken from the exit code alone.
TaskResult_exit_code_only(r) ==
    LET exit_code == r.final_test_exit_code
    IN  [passed |-> r.success,
         exit_code |-> IF exit_code # None THEN exit_code ELSE Some(-1),
         failure_reason |->
            IF ~r.success /\ exit_code # None
            THEN from_pytest_exit_code(CHOOSE c \in exit_code : TRUE)
            ELSE "<None>",
         stop_reason |-> r.stop_reason]

\* run_agent_attempt after loop.run() returned: the result part of the
\* attempt record.
TaskResult(r) ==
    LET exit_code == r.final_test_exit_code
        stop_reason == r.stop_reason
        failure_from_stop == _failure_from_stop_reason(stop_reason)
        failure_reason ==
            IF failure_from_stop # "<None>" THEN failure_from_stop
            ELSE IF ~r.success /\ exit_code # None
            THEN from_pytest_exit_code(CHOOSE c \in exit_code : TRUE)
            ELSE "<None>"
    IN  [passed |-> r.success,
         exit_code |-> IF exit_code # None THEN exit_code ELSE Some(-1),
         failure_reason |-> failure_reason,
         stop_reason |-> stop_reason]

\* The log calls evs made through the logger lg, of which as many appends
\* fail as the file system still has faults to give.
Emit(lg, evs) ==
    \E failed \in Failures(Len(evs), faults) :
        /\ event_logger' = LogAll(lg, evs, 1, failed)
        /\ faults' = faults - Cardinality(failed)

\* EventLogger.log_agent_finished, as its test describes it: one
\* agent_finished record is logged.
log_agent_finished == << <<"agent_finished", NoRequestId>> >>

\* `if event_logger and result:` in run_agent_attempt; the scripted entry
\* point has no event_logger there.
FinishedEvents(has_result) ==
    IF task.entrypoint # "scripted" /\ has_result THEN log_agent_finished ELSE <<>>

\* A return statement of AgentLoop.run after the log calls evs, and the tail
\* of run_agent_attempt: the attempt record built from the returned result
\* and the agent_finished event.
Return(r, site, evs) ==
    /\ result' = r
    /\ ret_site' = site
    /\ attempt' = TaskResult(r)
    /\ Emit(event_logger, evs \o FinishedEvents(TRUE))
    /\ pc' = "returned"

\* The handler goes on after the log calls evs.
Continue(next_pc, evs) ==
    /\ pc' = next_pc
    /\ Emit(event_logger, evs)
    /\ UNCHANGED <<result, ret_site, attempt>>

\* An exception reaches the handlers of run_agent_attempt: there is no
\* result, and the record carries the handler's failure reason.
Raise(failure_reason) ==
    /\ pc' = "raised"
    /\ attempt' = [passed |-> FALSE, exit_code |-> Some(-1),
                   failure_reason |-> failure_reason, stop_reason |-> NoStopReason]
    /\ Emit(event_logger, FinishedEvents(FALSE))
    /\ UNCHANGED <<result, ret_site>>

\* -------------------------------- run_agent_attempt up to the agent's run
\* validate_baseline is called and returns.
ValidateBaseline ==
    /\ pc = "baseline"
    /\ \E x \in BaselineRuns(task.has_setup) :
           validation_result' = validate_baseline(x)
    /\ pc' = "validated"
    /\ UNCHANGED <<budget, task, state, action, result, ret_site,
                   _tool_step_counter, _setup_completed, elapsed, decide_calls,
                   tool_started, initial_exit, test_passed, attempt,
                   event_logger, faults, artifacts>>
    /\ sandbox_calls' = <<>>
    /\ UNCHANGED component_vars

\* The test limited to validations that came out valid.
BaselinePassed_valid_only(v) == v.valid /\ v.exit_code = 0

\* The test run_agent_attempt makes before it starts the agent.

BaselinePassed(v) == v.exit_code = 0

\* `validation_result.exit_code == 0` raises ValueError; otherwise the agent
\* is instantiated and run: ScriptedAgent.run, which makes its own
\* EventLogger, or AgentLoop.run with the EventLogger made here.
\* validation_result is read again only for the baseline_validation part of
\* the record, which is not built here, so it is dropped when the agent
\* starts.
StartAgent ==
    /\ pc = "validated"
    /\ IF BaselinePassed(validation_result)
       THEN /\ Raise("UNKNOWN")
            /\ UNCHANGED validation_result
       ELSE /\ pc' = IF task.entrypoint = "scripted" THEN "scripted_setup" ELSE "start"
            /\ validation_result' = NoValidation
            /\ event_logger' = NewEventLogger
            /\ UNCHANGED <<result, ret_site, attempt, faults>>
    /\ UNCHANGED <<budget, task, state, action, _tool_step_counter,
                   _setup_completed, elapsed, decide_calls, tool_started,
                   initial_exit, test_passed, artifacts>>
    /\ sandbox_calls' = <<>>
    /\ UNCHANGED component_vars

\* The short circuit left out: a passing initial run goes on into the loop.
InitialTestsPassed_never(exit_code) == exit_code < 0

\* `exit_code == 0` after _run_initial_tests.
InitialTestsPassed(exit_code) == exit_code = 0

\* --------------------------------- AgentLoop.run up to the while loop
\* The first state with one step more than the budget gives.
InitialState_one_step_more(exit_code, output, b) ==
    AgentState(0, <<>>, <<>>, Some(exit_code), output, b.max_steps + 1,
               b.max_time_sec)

\* The AgentState the loop starts from: nothing done, the initial test run as
\* the last test run, the whole budget left.
InitialState(exit_code, output, b) ==
    AgentState(0, <<>>, <<>>, Some(exit_code), output, b.max_steps,
               b.max_time_sec)

\* _run_initial_tests: setup (network bridge) when the task has setup
\* commands, then the test command (network none) between tests_started and
\* tests_finished; a failing setup returns the setup command's exit code and
\* output instead.
RunInitialTests ==
    /\ pc = "start"
    /\ \E setup_failed \in BOOLEAN, run \in SandboxRuns :
        LET needs_setup == task.has_setup
            exit_code == run.exit_code
            evs == IF setup_failed THEN <<>>
                   ELSE << <<"tests_started", NoRequestId>>,
                           <<"tests_finished", NoRequestId>> >>
        IN  /\ setup_failed => (needs_setup /\ exit_code # 0)
            /\ _setup_completed' = (needs_setup /\ ~setup_failed)
            /\ initial_exit' = Some(exit_code)
            /\ test_passed' = (~setup_failed /\ exit_code = 0)
            /\ sandbox_calls' =
                   (IF needs_setup THEN <<SetupCall>> ELSE <<>>)
                   \o (IF setup_failed THEN <<>>
                       ELSE <<SandboxCall("run", TestCommand, InitialTestNetwork)>>)
            /\ IF InitialTestsPassed(exit_code)
               THEN /\ Return(AgentResult(TRUE, "SUCCESS", 0, <<>>,
                                          Some(exit_code), TRUE), "initial", evs)
                    /\ UNCHANGED state
               ELSE /\ state' = InitialState(exit_code, run.output, budget)
                    /\ Continue("check", evs)
    /\ UNCHANGED <<budget, task, action, _tool_step_counter, elapsed, decide_calls,
                   tool_started, validation_result, artifacts>>
    /\ UNCHANGED component_vars

\* ------------------------------------- top of the loop: stop conditions
CheckStop ==
    /\ pc = "check"
    /\ LET stop_reason == _check_stop_conditions(state, budget.repeated_failure_threshold)
           final_exit == state.last_test_exit_code
       IN  IF stop_reason # NoStopReason
           THEN Return(AgentResult(stop_reason = "SUCCESS", stop_reason,
                                   state.step_number, state.patches_applied,
                                   final_exit, final_exit = Some(0)), "stop_check",
                         <<>>)
           ELSE Continue("decide", <<>>)
    /\ UNCHANGED <<budget, task, state, action, _tool_step_counter,
                   _setup_completed, elapsed, decide_calls, tool_started,
                   initial_exit, test_passed, validation_result, artifacts>>
    /\ sandbox_calls' = <<>>
    /\ UNCHANGED component_vars

\* ------------------------------------------------------- agent.decide
\* What agent.decide may do: raise an exception (decision "RAISE"), or return
\* any AgentAction.
Decisions ==
    { AgentAction("RAISE", NoRequest, NoStopReason) }
    \cup { AgentAction("STOP", NoRequest, sr) : sr \in StopReason \cup {NoStopReason} }
    \cup { AgentAction("CALL_TOOL", NoRequest, NoStopReason) }
    \cup { AgentAction("CALL_TOOL", ToolRequest(t, ""), NoStopReason) :
               t \in ToolName \ {"RUN"} }
    \cup { AgentAction("CALL_TOOL", ToolRequest("RUN", c), NoStopReason) :
               c \in Commands }

\* An exception of agent.decide reported as a tool failure.
DecideRaised_as_tool_error(s) ==
    AgentResult(FALSE, "TOOL_ERROR", s.step_number, s.patches_applied,
                s.last_test_exit_code, FALSE)

\* The result returned when agent.decide raised.
DecideRaised(s) ==
    AgentResult(FALSE, "LLM_ERROR", s.step_number, s.patches_applied,
                s.last_test_exit_code, FALSE)

Decide ==
    /\ pc = "decide"
    /\ decide_calls' = decide_calls + 1
    /\ \E d \in Decisions :
        IF d.decision = "RAISE"
        THEN /\ Return(DecideRaised(state), "decide_raised", <<>>)
             /\ action' = d
        ELSE IF d.decision = "STOP"
        THEN LET reason == IF d.stop_reason # NoStopReason THEN d.stop_reason
                           ELSE "AGENT_GAVE_UP"
                 final_exit == state.last_test_exit_code
             IN  /\ Return(AgentResult(reason = "SUCCESS", reason, state.step_number,
                                       state.patches_applied, final_exit,
                                       final_exit = Some(0)), "agent_stop", <<>>)
                 /\ action' = d
        ELSE IF d.tool_request = NoRequest
        THEN /\ Return(AgentResult(FALSE, "TOOL_ERROR", state.step_number,
                                   state.patches_applied,
                                   state.last_test_exit_code, FALSE), "no_request",
                        <<>>)
             /\ action' = d
        ELSE /\ action' = d
             /\ Continue("execute", <<>>)
    /\ UNCHANGED <<budget, task, state, _tool_step_counter, _setup_completed,
                   elapsed, tool_started, initial_exit, test_passed,
                   validation_result, artifacts>>
    /\ sandbox_calls' = <<>>
    /\ UNCHANGED component_vars

\* ------------------------------------- execute, update, classify
\* No tool error tolerated at all.
is_expected_test_failure_never(request, r) ==
    /\ request.tool = "RUN"
    /\ r.error_type # "<None>"
    /\ r.error_type = "expected_failure"

\* The tool error the loop tolerates: a RUN that ended with abnormal_exit.
is_expected_test_failure(request, r) ==
    /\ request.tool = "RUN"
    /\ r.error_type # "<None>"
    /\ r.error_type = "abnormal_exit"

\* The early-success test applied to a RUN result.
EarlySuccess(r) == r.has_data /\ r.is_test_command /\ r.exit_code = Some(0)

\* The failed call left out of the count.
ToolErrorResult_call_not_counted(s) ==
    AgentResult(FALSE, "TOOL_ERROR", s.step_number - 1, s.patches_applied,
                s.last_test_exit_code, FALSE)

ToolErrorResult(s) ==
    AgentResult(FALSE, "TOOL_ERROR", s.step_number, s.patches_applied,
                s.last_test_exit_code, FALSE)

SuccessResult(s, r) ==
    AgentResult(TRUE, "SUCCESS", s.step_number, s.patches_applied, r.exit_code, TRUE)

\* One pass through the loop body after decide returned a tool request:
\* _execute_tool, _update_state, then the branches on the result.
ExecuteTool ==
    /\ pc = "execute"
    /\ \E now \in Clock,
          o \in _execute_tool(action.tool_request, _tool_step_counter + 1,
                              _setup_completed, task.has_setup) :
        LET r == o.result
            step_id == _tool_step_counter + 1
            next_state == _update_state(state, action, r, now, budget.max_time_sec)
            evs == ToolEvents(<<"agent", decide_calls>>, o.logged)
        IN  /\ tool_started' = tool_started + 1
            /\ _tool_step_counter' = step_id
            /\ _setup_completed' = o.setup_completed
            /\ elapsed' = now
            /\ test_passed' = (test_passed \/ TestCommandPassed(r))
            /\ sandbox_calls' = o.calls
            /\ artifacts' = IF r.tool = "APPLY_PATCH" /\ r.status = "SUCCESS"
                            THEN Append(artifacts, Some(step_id)) ELSE artifacts
            /\ state' = next_state
            /\ IF r.status = "ERROR" /\ ~is_expected_test_failure(action.tool_request, r)
               THEN Return(ToolErrorResult(next_state), "tool_error", evs)
               ELSE IF action.tool_request.tool = "APPLY_PATCH" /\ r.status = "SUCCESS"
               THEN Continue("auto_run", evs)
               ELSE IF action.tool_request.tool = "RUN" /\ EarlySuccess(r)
               THEN Return(SuccessResult(next_state, r), "run_success", evs)
               ELSE Continue("check", evs)
    /\ UNCHANGED <<budget, task, action, decide_calls, initial_exit,
                   validation_result>>
    /\ UNCHANGED component_vars

\* The RUN of the test command the loop issues after a successful APPLY_PATCH.
AutoRun ==
    /\ pc = "auto_run"
    /\ LET auto_request == ToolRequest("RUN", TestCommand)
           auto_action == AgentAction("CALL_TOOL", auto_request, NoStopReason)
       IN  \E now \in Clock,
              o \in _execute_tool(auto_request, _tool_step_counter + 1,
                                  _setup_completed, task.has_setup) :
            LET auto_result == o.result
                step_id == _tool_step_counter + 1
                next_state == _update_state(state, auto_action, auto_result, now,
                                            budget.max_time_sec)
                evs == ToolEvents(<<"auto_run", state.step_number>>, o.logged)
            IN  /\ tool_started' = tool_started + 1
                /\ _tool_step_counter' = step_id
                /\ _setup_completed' = o.setup_completed
                /\ elapsed' = now
                /\ test_passed' = (test_passed \/ TestCommandPassed(auto_result))
                /\ sandbox_calls' = o.calls
                /\ state' = next_state
                /\ IF EarlySuccess(auto_result)
                   THEN Return(SuccessResult(next_state, auto_result), "auto_success",
                               evs)
                   ELSE Continue("check", evs)
    /\ UNCHANGED <<budget, task, action, decide_calls, initial_exit,
                   validation_result, artifacts>>
    /\ UNCHANGED component_vars

\* ----------------------------------------------------- ScriptedAgent.run
\* request_id f"{run_id}-00k" of the scripted step k.
ScriptedRequestId(k) == <<"scripted", k>>

\* The request_id apply_patch and run_tool give their results: f"patch_{step_id}"
\* and f"tool_step_{step_id:04d}".  The loop overwrites it with the request's;
\* the scripted agent logs the result as it is.
ApplyPatchRequestId(step_id) == <<"patch", step_id>>

RunToolRequestId(step_id) == <<"tool_step", step_id>>

ScriptedResult(success, stop_reason, steps_taken, patches_applied, exit_code) ==
    AgentResult(success, stop_reason, steps_taken, patches_applied, exit_code, success)

\* The setup commands of the task, when it has any, between command_started
\* and command_finished; a failing setup ends the run with TOOL_ERROR.
ScriptedSetup ==
    /\ pc = "scripted_setup"
    /\ IF task.has_setup
       THEN \E setup_result \in SandboxRuns :
               LET evs == << <<"command_started", NoRequestId>>,
                             <<"command_finished", NoRequestId>> >>
               IN  IF setup_result.exit_code # 0
                   THEN Return(ScriptedResult(FALSE, "TOOL_ERROR", 0, <<>>,
                                              Some(setup_result.exit_code)),
                               "scripted_setup", evs)
                   ELSE Continue("scripted_1", evs)
       ELSE Continue("scripted_1", <<>>)
    /\ UNCHANGED <<budget, task, state, action, _tool_step_counter,
                   _setup_completed, elapsed, decide_calls, tool_started,
                   initial_exit, test_passed, validation_result, artifacts>>
    /\ sandbox_calls' = IF task.has_setup THEN <<SetupCall>> ELSE <<>>
    /\ UNCHANGED component_vars

\* Steps 1 to 3 (LIST_FILES, READ_FILE, SEARCH): the result is logged and
\* not looked at.
ScriptedFileStep ==
    /\ \E k \in 1..3 :
           /\ pc = "scripted_" \o ToString(k)
           /\ tool_started' = tool_started + 1
           /\ Continue("scripted_" \o ToString(k + 1),
                       << <<"agent_turn_started", NoRequestId>>,
                          <<"tool_call_started", ScriptedRequestId(k)>>,
                          <<"tool_call_finished", ScriptedRequestId(k)>>,
                          <<"agent_turn_finished", NoRequestId>> >>)
    /\ UNCHANGED <<budget, task, state, action, _tool_step_counter,
                   _setup_completed, elapsed, decide_calls, initial_exit,
                   test_passed, validation_result, artifacts>>
    /\ sandbox_calls' = <<>>
    /\ UNCHANGED component_vars

\* Step 4: apply_patch with step_id 4; an ERROR result ends the run before
\* tool_call_finished is logged.
ScriptedApplyPatch ==
    /\ pc = "scripted_4"
    /\ tool_started' = tool_started + 1
    /\ \E step_4_result \in ApplyPatchResults(4) \ {ExceptionResult("APPLY_PATCH")} :
           LET started == << <<"agent_turn_started", NoRequestId>>,
                             <<"tool_call_started", ScriptedRequestId(4)>> >>
           IN  IF step_4_result.status = "ERROR"
               THEN /\ Return(ScriptedResult(FALSE, "TOOL_ERROR", 4, <<>>, None),
                              "scripted_4", started)
                    /\ UNCHANGED artifacts
               ELSE /\ Continue("scripted_5",
                                started \o
                                << <<"patch_applied", NoRequestId>>,
                                   <<"tool_call_finished", ApplyPatchRequestId(4)>>,
                                   <<"agent_turn_finished", NoRequestId>> >>)
                    /\ artifacts' = Append(artifacts, step_4_result.patch_path)
    /\ UNCHANGED <<budget, task, state, action, _tool_step_counter,
                   _setup_completed, elapsed, decide_calls, initial_exit,
                   test_passed, validation_result>>
    /\ sandbox_calls' = <<>>
    /\ UNCHANGED component_vars

\* Step 5: run_tool on the agent's own pytest command; an ERROR result ends
\* the run before tool_call_finished is logged.
ScriptedRunTests ==
    /\ pc = "scripted_5"
    /\ tool_started' = tool_started + 1
    /\ \E step_5_result \in RunToolResults(FALSE) :
           LET started == << <<"agent_turn_started", NoRequestId>>,
                             <<"tool_call_started", ScriptedRequestId(5)>>,
                             <<"tests_started", NoRequestId>> >>
               finished == << <<"tool_call_finished", RunToolRequestId(5)>>,
                              <<"tests_finished", NoRequestId>>,
                              <<"agent_turn_finished", NoRequestId>> >>
               tests_passed == step_5_result.exit_code = Some(0)
           IN  IF step_5_result.status = "ERROR"
               THEN Return(ScriptedResult(FALSE, "TOOL_ERROR", 5, <<Some(4)>>,
                                          step_5_result.exit_code),
                           "scripted_5", started)
               ELSE Return(ScriptedResult(tests_passed,
                                          IF tests_passed THEN "SUCCESS"
                                          ELSE "AGENT_GAVE_UP",
                                          5, <<Some(4)>>, step_5_result.exit_code),
                           "scripted_done", started \o finished)
    /\ UNCHANGED <<budget, task, state, action, _tool_step_counter,
                   _setup_completed, elapsed, decide_calls, initial_exit,
                   test_passed, validation_result, artifacts>>
    /\ sandbox_calls' = <<SandboxCall("run", TestCommand, RunNetwork)>>
    /\ UNCHANGED component_vars

\* ---------------------------------------------------------- interruption
\* KeyboardInterrupt raised inside the try block of run_agent_attempt while
\* the validation or the agent is running: nothing in between catches it.
Interrupt ==
    /\ pc \notin {"returned", "raised"}
    /\ Raise("INTERRUPTED")
    /\ UNCHANGED <<budget, task, state, action, _tool_step_counter,
                   _setup_completed, elapsed, decide_calls, tool_started,
                   initial_exit, test_passed, validation_result, artifacts>>
    /\ sandbox_calls' = <<>>
    /\ UNCHANGED component_vars

Next ==
    \/ ValidateBaseline
    \/ StartAgent
    \/ RunInitialTests
    \/ CheckStop
    \/ Decide
    \/ ExecuteTool
    \/ AutoRun
    \/ ScriptedSetup
    \/ ScriptedFileStep
    \/ ScriptedApplyPatch
    \/ ScriptedRunTests

Spec == Init /\ [][Next]_vars

\* The run in an environment where appends to events.jsonl may fail and the
\* process may be interrupted.
NextEnv == Next \/ Interrupt

SpecEnv == InitEnv /\ [][NextEnv]_vars

\* ================================================================ claims
Returned == pc = "returned"

\* C1: the run ends with success=true and stop reason SUCCESS only if the
\* task's test command itself was executed and exited 0; a RUN of another
\* shell command that exits 0 never makes the run end as SUCCESS.
C1_SuccessOnlyAfterTestPassed ==
    (Returned /\ result.success /\ result.stop_reason = "SUCCESS") => test_passed

\* C2: the number of tool executions (tool_call_started events) of one run is
\* at most the configured max_steps.
C2_ToolExecutionsWithinMaxSteps == tool_started <= budget.max_steps

\* The request and the result of the tool execution a step has just made.
LastRequest(s) == Last(s.tool_history)[1]
LastToolResult(s) == Last(s.tool_history)[2]

\* C3: every tool execution whose result is an error, other than a RUN ending
\* with abnormal_exit, ends the run with TOOL_ERROR in the same step, before
\* agent.decide can be called again.
C3_ToolErrorEndsRun ==
    [][(/\ pc \in {"execute", "auto_run"}
        /\ tool_started' = tool_started + 1
        /\ LastToolResult(state').status = "ERROR"
        /\ ~(/\ LastRequest(state').tool = "RUN"
             /\ LastToolResult(state').error_type = "abnormal_exit"))
       => (pc' = "returned" /\ result'.stop_reason = "TOOL_ERROR")]_vars

\* C4: when agent.decide raises, the run returns at once a result with stop
\* reason LLM_ERROR and success=false, and no tool is executed for that step.
C4_DecideExceptionIsLLMError ==
    /\ [][(pc = "decide" /\ action'.decision = "RAISE")
          => (/\ pc' = "returned"
              /\ result'.stop_reason = "LLM_ERROR"
              /\ ~result'.success
              /\ result'.steps_taken = state.step_number
              /\ tool_started' = tool_started)]_vars
    /\ [](action.decision = "RAISE"
          => (Returned /\ result.stop_reason = "LLM_ERROR" /\ ~result.success))

C4_Witness ==
    /\ pc = "returned"
    /\ action.decision = "RAISE"
    /\ result.stop_reason = "LLM_ERROR"
    /\ decide_calls = 2
    /\ tool_started = 1

\* C5: when the initial test invocation exits 0 the run is over at once with
\* success=true, stop reason SUCCESS and steps_taken = 0, without any decide
\* call or tool execution.
C5_InitialPassShortCircuits ==
    (pc \notin {"baseline", "validated", "start"} /\ initial_exit = Some(0))
        => /\ Returned
           /\ result = AgentResult(TRUE, "SUCCESS", 0, <<>>, Some(0), TRUE)
           /\ decide_calls = 0
           /\ tool_started = 0

C5_Witness ==
    /\ pc = "returned"
    /\ initial_exit = Some(0)
    /\ test_passed
    /\ result.stop_reason = "SUCCESS"

\* C6: the stop check gives SUCCESS before MAX_STEPS before MAX_TIME before
\* REPEATED_FAILURE: the first of these whose condition holds is the stop
\* reason returned, whatever else holds with it.
C6_StopPriority ==
    [][pc = "check" =>
        LET passed == state.last_test_exit_code = Some(0)
            no_steps == state.budget_remaining_steps <= 0
            no_time == state.budget_remaining_sec <= 0
        IN  /\ passed => (pc' = "returned" /\ result'.stop_reason = "SUCCESS")
            /\ (~passed /\ no_steps)
                   => (pc' = "returned" /\ result'.stop_reason = "MAX_STEPS")
            /\ (~passed /\ ~no_steps /\ no_time)
                   => (pc' = "returned" /\ result'.stop_reason = "MAX_TIME")
            /\ (~passed /\ ~no_steps /\ ~no_time)
                   => \/ pc' = "decide"
                      \/ pc' = "returned" /\ result'.stop_reason = "REPEATED_FAILURE"]_vars

\* SUCCESS returned by the stop check while both budgets are used up as well.
C6_Witness ==
    /\ pc = "returned"
    /\ ret_site = "stop_check"
    /\ state.last_test_exit_code = Some(0)
    /\ state.budget_remaining_steps = 0
    /\ state.budget_remaining_sec = 0
    /\ result.stop_reason = "SUCCESS"

\* C7: agent.decide is never invoked, and no tool is executed, in a state
\* whose step budget or time budget is zero.
C7_NothingRunsOnZeroBudget ==
    [][(decide_calls' > decide_calls \/ tool_started' > tool_started)
       => (state.budget_remaining_steps > 0 /\ state.budget_remaining_sec > 0)]_vars

\* Every call so far was a LIST_FILES that succeeded.
AlwaysListFiles ==
    \A i \in 1..Len(state.tool_history) :
        /\ state.tool_history[i][1].tool = "LIST_FILES"
        /\ state.tool_history[i][2].status = "SUCCESS"

\* C8: failing tests, an agent that answers every decide with a LIST_FILES
\* call that succeeds, time left: the run makes exactly max_steps tool calls
\* and ends with MAX_STEPS and steps_taken = max_steps, recorded as
\* failure_reason AGENT_GAVE_UP.
C8_ListFilesRunsToMaxSteps ==
    (/\ Returned
     /\ ret_site = "stop_check"
     /\ initial_exit # Some(0)
     /\ AlwaysListFiles
     /\ state.budget_remaining_sec > 0)
        => /\ result.stop_reason = "MAX_STEPS"
           /\ ~result.success
           /\ result.steps_taken = budget.max_steps
           /\ tool_started = budget.max_steps
           /\ Len(state.tool_history) = budget.max_steps
           /\ attempt.failure_reason = "AGENT_GAVE_UP"

C8_Witness ==
    /\ pc = "returned"
    /\ ret_site = "stop_check"
    /\ AlwaysListFiles
    /\ state.budget_remaining_sec > 0
    /\ budget.max_steps > 1
    /\ tool_started = budget.max_steps
    /\ attempt.failure_reason = "AGENT_GAVE_UP"

\* The step being taken executes an agent RUN of the test command that ends
\* with a non-zero exit and error kind abnormal_exit.
FailingTestRun ==
    /\ pc = "execute"
    /\ action.tool_request.tool = "RUN"
    /\ _is_test_command(action.tool_request.command)
    /\ tool_started' = tool_started + 1
    /\ LastToolResult(state').error_type = "abnormal_exit"
    /\ LastToolResult(state').exit_code # Some(0)

\* C9: a failing agent RUN of the test command (abnormal_exit) does not end
\* the run; the next state holds its exit code and output as last test exit
\* code and output, and the stop check that follows hands over to
\* agent.decide unless a budget or repetition stop applies.
C9_FailingTestRunContinues ==
    /\ [][FailingTestRun
          => (/\ pc' = "check"
              /\ state'.last_test_exit_code = LastToolResult(state').exit_code
              /\ state'.last_test_output = LastToolResult(state').file_output)]_vars
    /\ [][(/\ pc = "check"
           /\ state.last_test_exit_code # Some(0)
           /\ state.budget_remaining_steps > 0
           /\ state.budget_remaining_sec > 0
           /\ pc' = "returned")
          => result'.stop_reason = "REPEATED_FAILURE"]_vars

\* decide is called again after a failing test run whose exit code and output
\* differ from those of the initial run.
C9_Witness ==
    /\ pc = "decide"
    /\ decide_calls = 1
    /\ Len(state.tool_history) = 1
    /\ LastRequest(state).tool = "RUN"
    /\ LastToolResult(state).is_test_command
    /\ LastToolResult(state).error_type = "abnormal_exit"
    /\ state.last_test_exit_code = Some(1)
    /\ state.last_test_output = "FAILED a"
    /\ initial_exit = Some(2)
    /\ state.budget_remaining_sec > 0

\* The RUN results of the history, oldest first.
RunResults(s) ==
    LET runs == SelectSeq(s.tool_history, LAMBDA e : e[1].tool = "RUN")
    IN  [i \in 1..Len(runs) |-> runs[i][2]]

\* The K most recent RUN results all carry the same combined_output.
LastRunsIdentical(s, K) ==
    LET runs == RunResults(s)
        n == Len(runs)
    IN  /\ n >= K
        /\ \A i \in (n - K + 1)..n :
              /\ runs[i].has_data
              /\ runs[i].combined_output # NoOutput
              /\ runs[i].combined_output = runs[n].combined_output

\* C10: when the K most recent RUN results have identical combined_output and
\* neither SUCCESS nor a budget stop applies, the stop check returns
\* REPEATED_FAILURE; agent.decide is never called in such a state.
C10_RepeatedFailureStops ==
    /\ [][(/\ pc = "check"
           /\ LastRunsIdentical(state, budget.repeated_failure_threshold)
           /\ state.last_test_exit_code # Some(0)
           /\ state.budget_remaining_steps > 0
           /\ state.budget_remaining_sec > 0)
          => (/\ pc' = "returned"
              /\ result'.stop_reason = "REPEATED_FAILURE"
              /\ decide_calls' = decide_calls)]_vars
    /\ [](pc \in {"decide", "execute", "auto_run"}
          => ~LastRunsIdentical(state, budget.repeated_failure_threshold))

C10_Witness ==
    /\ pc = "returned"
    /\ ret_site = "stop_check"
    /\ result.stop_reason = "REPEATED_FAILURE"
    /\ LastRunsIdentical(state, budget.repeated_failure_threshold)
    /\ state.budget_remaining_steps > 0
    /\ state.budget_remaining_sec > 0

\* ---------------------------------------------------------------- C11
LoopRunning == pc \in {"check", "decide", "execute", "auto_run"}

\* C11: in the loop every tool execution and every state update is the one
\* that follows a decide call: the step that starts a tool or advances
\* state.step_number is taken right after agent.decide returned a request.
C11_OneDecidePerExecution ==
    [][(/\ LoopRunning
        /\ \/ tool_started' # tool_started
           \/ state'.step_number # state.step_number)
       => pc = "execute"]_vars

\* ---------------------------------------------------------------- C12
\* C12: the step ids of the successive records of events.jsonl are 1, 2,
\* 3, ...: the i-th record of the file carries step id i.
C12_StepIdsCountFromOne ==
    \A i \in 1..Len(event_logger.file) : event_logger.file[i].step_id = i

\* ---------------------------------------------------------------- C13
IsEvent(e, event_type, request_id) ==
    e.event_type = event_type /\ e.request_id = request_id

\* C13: every tool_call_finished record of the event log has before it a
\* tool_call_started record with the same request_id, and no other
\* tool_call_finished with that request_id lies between the two.
C13_FinishedFollowsStarted ==
    LET file == event_logger.file
    IN  \A j \in 1..Len(file) :
            file[j].event_type = "tool_call_finished" =>
                \E i \in 1..(j - 1) :
                    /\ IsEvent(file[i], "tool_call_started", file[j].request_id)
                    /\ \A k \in (i + 1)..(j - 1) :
                           ~IsEvent(file[k], "tool_call_finished", file[j].request_id)

\* ---------------------------------------------------------------- C14
\* run_agent_attempt is past the agent's run.
AttemptOver == pc \in {"returned", "raised"}

\* C14: when the attempt is over, an event log that was written has exactly
\* one agent_finished record, and it is the last record.
C14_AgentFinishedIsLast ==
    LET file == event_logger.file
    IN  (AttemptOver /\ file # <<>>) =>
            /\ Last(file).event_type = "agent_finished"
            /\ Cardinality({ i \in 1..Len(file) :
                                file[i].event_type = "agent_finished" }) = 1

\* ---------------------------------------------------------------- C15
\* C15: when the loop starts the tool of a step after the first, every
\* event logged so far is in events.jsonl: the file has as many records as
\* step ids were handed out.
C15_EventsOnDiskBeforeNextTool ==
    [][(LoopRunning /\ tool_started >= 1 /\ tool_started' > tool_started)
       => Len(event_logger.file) = event_logger._step_counter]_vars

\* ---------------------------------------------------------------- C16
\* C16: at every point of a run patches_applied, in the loop's state and in
\* the result once the agent returned, is the sequence of the artifacts
\* written by the successful APPLY_PATCH executions so far, in order.
C16_PatchesAppliedAreArtifacts ==
    /\ task.entrypoint # "scripted" => state.patches_applied = artifacts
    /\ Returned => result.patches_applied = artifacts

\* A loop run that applied a patch, and later had an APPLY_PATCH fail, has
\* returned.
C16_Witness ==
    /\ Returned
    /\ task.entrypoint # "scripted"
    /\ result.patches_applied = <<Some(1)>>
    /\ \E i \in 1..Len(state.tool_history) :
           /\ state.tool_history[i][1].tool = "APPLY_PATCH"
           /\ state.tool_history[i][2].status = "ERROR"

\* ---------------------------------------------------------------- C17
\* The table of section 7, failure reason by stop reason.
FailureReasonTable ==
    [sr \in StopReason |->
        CASE sr = "SUCCESS" -> "<None>"
          [] sr = "MAX_TIME" -> "TIMEOUT"
          [] sr \in {"MAX_STEPS", "AGENT_GAVE_UP", "REPEATED_FAILURE"} -> "AGENT_GAVE_UP"
          [] sr = "TOOL_ERROR" -> "TOOL_ERROR"
          [] sr = "LLM_ERROR" -> "LLM_ERROR"
          [] sr = "INTERRUPTED" -> "INTERRUPTED"]

\* C17: the failure_reason of the attempt record of a run that returned a
\* result is the table's entry for the result's stop reason, for each of the
\* eight stop reasons.
C17_FailureReasonFollowsStopReason ==
    Returned =>
        /\ result.stop_reason \in StopReason
        /\ attempt.stop_reason = result.stop_reason
        /\ attempt.failure_reason = FailureReasonTable[result.stop_reason]

\* The loop's own stop check ended a run with MAX_TIME and the record says
\* TIMEOUT.
C17_Witness ==
    /\ Returned
    /\ ret_site = "stop_check"
    /\ result.stop_reason = "MAX_TIME"
    /\ attempt.failure_reason = "TIMEOUT"

\* ---------------------------------------------------------------- C18
\* AgentLoop.run is executing.
InLoopRun == pc \in {"start", "check", "decide", "execute", "auto_run"}

\* C18: an attempt that is recorded as interrupted while AgentLoop.run was
\* executing has a result returned by the loop, with stop reason INTERRUPTED
\* and success=false.
C18_InterruptReturnsResult ==
    [][(InLoopRun /\ attempt'.failure_reason = "INTERRUPTED")
       => (/\ pc' = "returned"
           /\ result'.stop_reason = "INTERRUPTED"
           /\ ~result'.success)]_vars

\* ---------------------------------------------------------------- C19
\* The baseline validation got as far as the test command, after setup, and
\* the test command exited 0.
TestsPassedAfterSetup(x) ==
    /\ x.clone_exit = 0 /\ x.checkout_exit = 0 /\ x.setup_exit = 0
    /\ x.inspect_exit = 0 /\ ~x.dirty
    /\ x.run_exit = 0

\* C19: a baseline whose test command exits 0 after setup is rejected with
\* baseline_not_failing, and the attempt that got this validation result
\* ends without starting an agent: no agent.decide call, no tool execution.
C19_PassingBaselineStartsNoAgent ==
    /\ [](pc = "validated" =>
             \A x \in BaselineRuns(task.has_setup) :
                 TestsPassedAfterSetup(x) =>
                     validate_baseline(x) =
                         ValidationResult(FALSE, 0, "BASELINE_NOT_FAILING"))
    /\ [][(/\ pc = "validated"
           /\ validation_result.error_reason = "BASELINE_NOT_FAILING")
          => pc' = "raised"]_vars
    /\ [](pc = "raised" => (decide_calls = 0 /\ tool_started = 0))

\* The attempt ended on a baseline_not_failing validation.
C19_Witness ==
    /\ pc = "raised"
    /\ validation_result = ValidationResult(FALSE, 0, "BASELINE_NOT_FAILING")
    /\ attempt.failure_reason = "UNKNOWN"
    /\ decide_calls = 0
    /\ tool_started = 0

\* ---------------------------------------------------------------- C20
\* C20: an attempt whose baseline validation did not come out valid, for
\* whatever failure kind, ends there: the agent (loop or scripted run) is
\* not started.
C20_AgentStartsOnlyOnValidBaseline ==
    [][(pc = "validated" /\ ~validation_result.valid) => pc' = "raised"]_vars

\* ---------------------------------------------------------------- C21
\* The validation got as far as the rerun, and the rerun's exit code or
\* failure signature is not that of the first run.
RerunDiffers(x) ==
    /\ x.clone_exit = 0 /\ x.checkout_exit = 0 /\ x.setup_exit = 0
    /\ x.inspect_exit = 0 /\ ~x.dirty
    /\ x.run_exit = 1 /\ ~x.mismatch
    /\ x.rerun_exit # None
    /\ \/ x.rerun_exit # Some(x.run_exit)
       \/ _failure_signature(x.rerun_output) # _failure_signature(x.run_output)

\* C21: a baseline validation whose rerun is performed and differs from the
\* first run in exit code or failure signature is rejected with
\* baseline_flaky and valid=false.
C21_DifferingRerunIsFlaky ==
    pc = "validated" =>
        \A x \in BaselineRuns(task.has_setup) :
            RerunDiffers(x) =>
                /\ ~validate_baseline(x).valid
                /\ validate_baseline(x).error_reason = "BASELINE_FLAKY"

\* validate_baseline returned baseline_flaky for a rerun with the same exit
\* code as the first run.
C21_Witness ==
    /\ pc = "validated"
    /\ validation_result = ValidationResult(FALSE, 1, "BASELINE_FLAKY")
    /\ \E x \in BaselineRuns(task.has_setup) :
           /\ RerunDiffers(x)
           /\ x.rerun_exit = Some(x.run_exit)
           /\ validate_baseline(x) = validation_result

\* run_agent_attempt up to the point where the agent starts.
NextBaseline == ValidateBaseline \/ StartAgent

SpecBaseline == Init /\ [][NextBaseline]_vars

\* ================================================= sandbox/filesystem.py
\* A path string is the sequence of its tokens: "/" or a name.  Names are
\* atomic, so startswith and equality of strings are those of the sequences.
PathTokens == {"/", "..", "repo", "workspace", "a", "lnk_out", "lnk_in"}

PathStrings == UNION { [1..n -> PathTokens] : n \in 0..MaxPathLen }

\* The file system: the canonical workspace root /ws, and below it a symlink
\* to /etc and a symlink to /ws/a.  Canonical paths are sequences of names
\* from the file system root.
WorkspaceRoot == <<"ws">>

Symlinks == [p \in {<<"ws", "lnk_out">>, <<"ws", "lnk_in">>} |->
                IF p = <<"ws", "lnk_out">> THEN <<"etc">> ELSE <<"ws", "a">>]

\* str.startswith
StartsWith(s, prefix) ==
    Len(s) >= Len(prefix) /\ SubSeq(s, 1, Len(prefix)) = prefix

\* s[n:]
DropPrefix(s, n) == SubSeq(s, n + 1, Len(s))

\* str.strip('/')
RECURSIVE Strip(_)
Strip(s) ==
    IF s # <<>> /\ s[1] = "/" THEN Strip(Tail(s))
    ELSE IF s # <<>> /\ s[Len(s)] = "/" THEN Strip(SubSeq(s, 1, Len(s) - 1))
    ELSE s

\* The names of a path string, empty components dropped.
Parts(s) == SelectSeq(s, LAMBDA t : t # "/")

\* Path.__truediv__: an absolute right operand replaces the left one.
JoinPath(root, s) ==
    IF s # <<>> /\ s[1] = "/" THEN Parts(s) ELSE root \o Parts(s)

\* Path.resolve() on the names of an absolute path, from the canonical path
\* cur: ".." goes to the parent (the file system root is its own parent), a
\* symlink is replaced by its target, any other name is appended whether it
\* exists or not.
RECURSIVE ResolveFrom(_, _)
ResolveFrom(cur, names) ==
    IF names = <<>> THEN cur
    ELSE LET name == Head(names)
             next == IF name = ".."
                     THEN IF cur = <<>> THEN cur ELSE SubSeq(cur, 1, Len(cur) - 1)
                     ELSE IF Append(cur, name) \in DOMAIN Symlinks
                     THEN Symlinks[Append(cur, name)]
                     ELSE Append(cur, name)
         IN  ResolveFrom(next, Tail(names))

resolve(names) == ResolveFrom(<<>>, names)

\* Path.is_relative_to: component-wise prefix.
is_relative_to(path, root) == StartsWith(path, root)

\* Some path_so_far between root and path is a symlink.
ContainsSymlink(path, root) ==
    \E n \in (Len(root) + 1)..Len(path) : SubSeq(path, 1, n) \in DOMAIN Symlinks

\* The prefix rewriting at the head of resolve_safe_path.
StripPrefixes(s) ==
    IF s = <<"repo">> THEN <<>>
    ELSE IF StartsWith(s, <<"repo", "/">>) THEN DropPrefix(s, 2)
    ELSE IF s = <<"/", "workspace", "/", "repo">> THEN <<>>
    ELSE IF StartsWith(s, <<"/", "workspace", "/", "repo", "/">>) THEN DropPrefix(s, 5)
    ELSE IF s = <<"/", "workspace">> THEN <<>>
    ELSE IF StartsWith(s, <<"/", "workspace", "/">>) THEN DropPrefix(s, 3)
    ELSE IF StartsWith(s, <<"/">>) THEN Strip(s)
    ELSE s

\* resolve_safe_path that tests the joined path as written, unresolved.
resolve_safe_path_unresolved(workspace_root, path, symlinks_allowed) ==
    LET root == resolve(workspace_root)
        joined == JoinPath(root, StripPrefixes(path))
        written == SelectSeq(joined, LAMBDA t : t # "..")
    IN  IF ~is_relative_to(written, root)
        THEN <<"PathEscapeError", written>>
        ELSE IF ~symlinks_allowed /\ ContainsSymlink(written, root)
        THEN <<"SymLinkError", written>>
        ELSE <<"returned", written>>

\* resolve_safe_path: the error raised, or the path returned.
resolve_safe_path(workspace_root, path, symlinks_allowed) ==
    LET root == resolve(workspace_root)
        joined == JoinPath(root, StripPrefixes(path))
        resolved == resolve(joined)
    IN  IF ~is_relative_to(resolved, root)
        THEN <<"PathEscapeError", resolved>>
        ELSE IF ~symlinks_allowed /\ ContainsSymlink(resolved, root)
        THEN <<"SymLinkError", resolved>>
        ELSE <<"returned", resolved>>

\* A caller hands a path string to resolve_safe_path.
InitPath ==
    /\ OutsidePathIdle
    /\ relative_path \in PathStrings
    /\ allow_symlinks \in BOOLEAN
    /\ candidate = <<"idle">>

ResolveSafePath ==
    /\ candidate = <<"idle">>
    /\ candidate' = resolve_safe_path(WorkspaceRoot, relative_path, allow_symlinks)
    /\ UNCHANGED <<outside_path, relative_path, allow_symlinks>>

NextPath == ResolveSafePath

SpecPath == InitPath /\ [][NextPath]_vars

\* ---------------------------------------------------------------- C22
\* C22: whatever path string the caller gives, resolve_safe_path raises or
\* returns a path whose canonical form is the canonical workspace root or a
\* descendant of it.
C22_ResolvedPathStaysInWorkspace ==
    candidate[1] = "returned" =>
        is_relative_to(resolve(candidate[2]), resolve(WorkspaceRoot))

\* A path through the symlink that stays inside was returned, as its target.
C22_Witness ==
    /\ relative_path = <<"/", "workspace", "/", "lnk_in">>
    /\ allow_symlinks
    /\ candidate = <<"returned", <<"ws", "a">> >>

\* A path through the symlink that leads outside was refused.
C22_WitnessEscape ==
    /\ relative_path = <<"repo", "/", "lnk_out">>
    /\ candidate[1] = "PathEscapeError"

\* ------------------------------------------------------------------- C23
\* The attempt actions over the short budgets.
SpecShort == InitShort /\ [][Next]_vars

\* C23: every sandbox.run call the agent makes for the test command (initial
\* run, agent RUN, loop-issued run) or for any agent RUN command has network
\* "none"; a call has network "bridge" only when it runs the setup commands.
C23_RunsHaveNoNetwork ==
    \A i \in 1..Len(sandbox_calls) :
        /\ sandbox_calls[i].kind = "run" => sandbox_calls[i].network = "none"
        /\ sandbox_calls[i].network = "bridge" => sandbox_calls[i].kind = "setup"

\* A tool step of the loop ran the setup commands on bridge and then the
\* test command without network.
C23_Witness ==
    /\ tool_started > 0
    /\ Len(sandbox_calls) = 2
    /\ sandbox_calls[1] = SetupCall
    /\ sandbox_calls[1].network = "bridge"
    /\ sandbox_calls[2].kind = "run"
    /\ sandbox_calls[2].network = "none"
    /\ C23_RunsHaveNoNetwork

\* ------------------------------------------------- PersistentDockerSandbox
MaxExecs == 3          \* most exec calls on one PersistentDockerSandbox

\* The network of a container that `docker run --network bridge` started,
\* and the value __init__ and start give _network_state.
DefaultNetwork == "bridge"

\* The network= arguments of exec: omitted, or one of the two names.
ExecNetworks == {None, Some("none"), Some("bridge")}

NotRun == "<RuntimeError>"

SandboxFields(cid, net) == [container_id |-> cid, _network_state |-> net]

\* start() that runs docker run whether or not a container exists.
start_always(self, docker_run_ok, cid) ==
    IF ~docker_run_ok THEN self
    ELSE SandboxFields(Some(cid), DefaultNetwork)

\* start(): nothing when a container runs; otherwise docker run, which
\* gives a container on bridge (cid is the id it prints) or fails
\* (RuntimeError, nothing assigned).
start(self, docker_run_ok, cid) ==
    IF self.container_id # None THEN self
    ELSE IF ~docker_run_ok THEN self
    ELSE SandboxFields(Some(cid), DefaultNetwork)

\* _set_network(network): returns at once when no network is named, when it
\* is the recorded one, or when there is no container; otherwise disconnects
\* or connects the bridge and records the new state, whatever the docker
\* command returned.
_set_network(self, network) ==
    IF network = None \/ network = Some(self._network_state) THEN self
    ELSE IF self.container_id = None THEN self
    ELSE SandboxFields(self.container_id, CHOOSE n \in network : TRUE)

\* cleanup(): docker rm -f, container_id = None; _network_state stays.
cleanup(self) == SandboxFields(None, self._network_state)

\* docker run --detach --network bridge: one more container, on bridge.
DockerRun(containers, cid) == containers @@ (cid :> DefaultNetwork)

\* docker network connect / disconnect bridge: the attachment changes when the
\* command succeeds and stays when it fails.
DockerNetwork(containers, cid, network, docker_net_ok) ==
    IF docker_net_ok /\ cid \in DOMAIN containers
    THEN [containers EXCEPT ![cid] = network]
    ELSE containers

\* docker rm -f: the container is gone.
DockerRm(containers, cid) ==
    [c \in DOMAIN containers \ {cid} |-> containers[c]]

\* What docker holds after start() took `before` to `after`.
AfterStart(containers, before, after) ==
    IF after.container_id # before.container_id
    THEN DockerRun(containers, CHOOSE c \in after.container_id : TRUE)
    ELSE containers

InitSandbox == OutsideSandboxIdle /\ SandboxIdle

\* sandbox.start() of run_task, the first statement for the sandbox in the try
\* block; a RuntimeError leads to the finally block.
Start ==
    /\ run_pc = "new"
    /\ \E docker_run_ok \in BOOLEAN :
         LET self == SandboxFields(container_id, _network_state)
             started == start(self, docker_run_ok, docker_started + 1)
         IN  /\ container_id' = started.container_id
             /\ _network_state' = started._network_state
             /\ docker_containers' = AfterStart(docker_containers, self, started)
             /\ docker_started' = IF started.container_id # self.container_id
                                  THEN docker_started + 1 ELSE docker_started
             /\ run_pc' = IF started.container_id = None THEN "finally" ELSE "try"
    /\ UNCHANGED <<exec_history, outside_sandbox>>

\* exec(command, network=...): _ensure_started, _set_network, docker exec.
\* The command runs in the container with the attachment docker has for it;
\* an exception (start failed, the log files cannot be opened, OSError) leaves
\* the try block of the run.
Exec ==
    /\ run_pc \in {"try", "over", "reused"}
    /\ Len(exec_history) < MaxExecs
    /\ \E network \in ExecNetworks, docker_run_ok \in BOOLEAN,
          docker_net_ok \in BOOLEAN, exec_ok \in BOOLEAN :
         LET self == SandboxFields(container_id, _network_state)
             started == start(self, docker_run_ok, docker_started + 1)
             switched == _set_network(started, network)
             run == AfterStart(docker_containers, self, started)
             cid == CHOOSE c \in switched.container_id : TRUE
             docker == IF switched._network_state # started._network_state
                       THEN DockerNetwork(run, cid, switched._network_state,
                                          docker_net_ok)
                       ELSE run
         IN  IF started.container_id = None
             THEN /\ exec_history' = Append(exec_history,
                        [network |-> network, container |-> 0, ran_in |-> NotRun])
                  /\ run_pc' = IF run_pc = "try" THEN "finally" ELSE run_pc
                  /\ UNCHANGED <<container_id, _network_state, docker_containers,
                                 docker_started>>
             ELSE /\ container_id' = switched.container_id
                  /\ _network_state' = switched._network_state
                  /\ docker_containers' = docker
                  /\ docker_started' = IF started.container_id # self.container_id
                                       THEN docker_started + 1 ELSE docker_started
                  /\ exec_history' = Append(exec_history,
                        [network |-> network,
                         container |-> IF exec_ok THEN cid ELSE 0,
                         ran_in |-> IF exec_ok /\ cid \in DOMAIN docker
                                    THEN docker[cid] ELSE NotRun])
                  /\ run_pc' = IF run_pc = "try"
                               THEN (IF exec_ok THEN "try" ELSE "finally")
                               ELSE "reused"
    /\ UNCHANGED outside_sandbox

\* The try block of run_task is left, at its end or by an exception raised
\* between two sandbox calls.
LeaveTry ==
    /\ run_pc = "try"
    /\ run_pc' = "finally"
    /\ UNCHANGED <<container_id, _network_state, exec_history, docker_containers,
                   docker_started, outside_sandbox>>

\* sandbox.cleanup(): in the finally block of run_task, or by whoever used the
\* sandbox again.
Cleanup ==
    /\ run_pc \in {"finally", "reused"}
    /\ LET self == SandboxFields(container_id, _network_state)
           cleaned == cleanup(self)
       IN  /\ container_id' = cleaned.container_id
           /\ _network_state' = cleaned._network_state
           /\ docker_containers' =
                 IF self.container_id # None
                 THEN DockerRm(docker_containers,
                               CHOOSE c \in self.container_id : TRUE)
                 ELSE docker_containers
    /\ run_pc' = "over"
    /\ UNCHANGED <<exec_history, docker_started, outside_sandbox>>

NextSandbox == Start \/ Exec \/ LeaveTry \/ Cleanup

SpecSandbox == InitSandbox /\ [][NextSandbox]_vars

\* ---------------------------------------------------------------- C24
\* C24: in persistent mode every command runs in the network it needs: the
\* one its exec call names, or the default when it names none; it never runs
\* in a state that only an earlier command's switch left behind.
C24_NoLeftoverNetworkState ==
    \A i \in 1..Len(exec_history) :
        LET e == exec_history[i]
        IN  e.ran_in # NotRun =>
               e.ran_in = IF e.network = None THEN DefaultNetwork
                          ELSE CHOOSE n \in e.network : TRUE

\* ------------------------------------------------------------ apply_patch
MaxEntries == 2        \* most file entries in one patch text

\* Files of the workspace the patches name; MoveTarget is where a move goes.
PatchPaths == {"a.py", "b.py"}
MoveTarget == "c.py"
WorkspacePaths == PatchPaths \cup {MoveTarget}

\* A file's content: missing, what the patch was written against ("old"),
\* something else ("drift"), or what the patch makes of it ("new").
Absent == "<absent>"
Contents == {Absent, "old", "drift", "new"}

\* One file entry of a patch text: what it does to which file.  In a unified
\* diff "add" has --- /dev/null, "delete" has +++ /dev/null and "move" has
\* --- a/<path>, +++ b/<MoveTarget>; in a Begin Patch envelope they are
\* Add File, Delete File and Update File with Move to.
PatchOps == {"modify", "add", "delete", "move"}
PatchEntries == [op : PatchOps, path : PatchPaths]
EntrySeqs == UNION { [1..n -> PatchEntries] : n \in 0..MaxEntries }

\* The shape of a unified diff text: "canonical", or "short_header" (hunk
\* headers "@@ -a +c @@" with the counts left out, which the patch utility
\* takes), or one of the shapes the patch utility refuses and one rewriting
\* stage repairs.
AcceptedForms == {"canonical", "short_header"}
PatchForms ==
    AcceptedForms \cup
    {"split_header", "fenced", "unprefixed", "workspace_paths",
     "miscounted", "noeof", "bare_header"}

\* A patch text: a Begin Patch envelope or a unified diff, its entries, its
\* form, and whether its last line ends with a newline.
PatchText(envelope, entries, form, terminated) ==
    [envelope |-> envelope, entries |-> entries, form |-> form,
     terminated |-> terminated]

PatchTexts ==
    { PatchText(FALSE, es, f, t) :
          es \in EntrySeqs, f \in PatchForms, t \in BOOLEAN }
    \cup { PatchText(TRUE, es, "canonical", TRUE) : es \in EntrySeqs }

Workspaces ==
    { [p \in WorkspacePaths |->
          IF p = "a.py" THEN a ELSE IF p = "b.py" THEN b ELSE Absent] :
          a \in {"old", "drift"}, b \in {"old", Absent} }

\* _write_patch: the text as the temporary file holds it, a newline added
\* when the text does not end with one.
_write_patch(text) == [text EXCEPT !.terminated = TRUE]

\* A rewriting stage that repairs one form: unchanged text is kept as it is,
\* changed text comes out of "\n".join(...) without its final newline.
Normalize(text, repairs) ==
    IF text.form \in repairs
    THEN [text EXCEPT !.form = "canonical", !.terminated = FALSE]
    ELSE text

_normalize_split_headers(text) == Normalize(text, {"split_header"})
_normalize_patch_headers(text) == Normalize(text, {"fenced"})
_normalize_hunk_prefixes(text) == Normalize(text, {"unprefixed"})
_normalize_patch_paths(text) == Normalize(text, {"workspace_paths"})
_normalize_hunk_counts(text) == Normalize(text, {"miscounted", "short_header"})
_normalize_noeof_markers(text) == Normalize(text, {"noeof", "split_header"})

\* _looks_like_context_patch: some line starts with "@@" and is no hunk header.
_looks_like_context_patch(text) == text.form = "bare_header"

\* What the patch utility does with one entry: [ws, ok].
UtilityEntry(ws, e) ==
    CASE e.op = "modify" ->
           IF ws[e.path] = "old"
           THEN [ws |-> [ws EXCEPT ![e.path] = "new"], ok |-> TRUE]
           ELSE [ws |-> ws, ok |-> FALSE]
      [] e.op = "add" ->
           IF ws[e.path] = Absent
           THEN [ws |-> [ws EXCEPT ![e.path] = "new"], ok |-> TRUE]
           ELSE [ws |-> ws, ok |-> FALSE]
      [] e.op = "delete" ->
           IF ws[e.path] = "old"
           THEN [ws |-> [ws EXCEPT ![e.path] = Absent], ok |-> TRUE]
           ELSE [ws |-> ws, ok |-> FALSE]
      [] e.op = "move" ->
           IF ws[e.path] = "old" /\ ws[MoveTarget] = Absent
           THEN [ws |-> [ws EXCEPT ![e.path] = Absent, ![MoveTarget] = "new"],
                 ok |-> TRUE]
           ELSE [ws |-> ws, ok |-> FALSE]

RECURSIVE UtilityEntries(_, _, _)
UtilityEntries(ws, entries, i) ==
    IF i > Len(entries) THEN [ws |-> ws, ok |-> TRUE]
    ELSE LET one == UtilityEntry(ws, entries[i])
             rest == UtilityEntries(one.ws, entries, i + 1)
         IN  [ws |-> rest.ws, ok |-> one.ok /\ rest.ok]

\* patch --batch -p1 -i <file>: the entries that apply are applied, the others
\* rejected; a text that is no accepted unified diff changes nothing.  ok is
\* returncode = 0.
PatchUtility(ws, file) ==
    IF file.envelope \/ file.form \notin AcceptedForms \/ file.entries = <<>>
    THEN [ws |-> ws, ok |-> FALSE]
    ELSE UtilityEntries(ws, file.entries, 1)

\* patch --batch --dry-run: the return code alone.
DryRun(ws, file) == [text |-> file, ok |-> PatchUtility(ws, file).ok]

\* One entry under _apply_begin_patch: [ws, changed, error], error for a raised
\* PatchApplyError.
BeginPatchEntry(ws, e) ==
    CASE e.op = "delete" ->
           IF ws[e.path] # Absent
           THEN [ws |-> [ws EXCEPT ![e.path] = Absent], changed |-> {e.path},
                 error |-> FALSE]
           ELSE [ws |-> ws, changed |-> {}, error |-> FALSE]
      [] e.op = "add" ->
           [ws |-> [ws EXCEPT ![e.path] = "new"], changed |-> {e.path},
            error |-> FALSE]
      [] e.op \in {"modify", "move"} ->
           IF ws[e.path] # "old"
           THEN [ws |-> ws, changed |-> {}, error |-> TRUE]
           ELSE IF e.op = "modify"
           THEN [ws |-> [ws EXCEPT ![e.path] = "new"], changed |-> {e.path},
                 error |-> FALSE]
           ELSE [ws |-> [ws EXCEPT ![e.path] = Absent, ![MoveTarget] = "new"],
                 changed |-> {e.path}, error |-> FALSE]

RECURSIVE BeginPatchEntries(_, _, _)
BeginPatchEntries(ws, entries, i) ==
    IF i > Len(entries) THEN [ws |-> ws, changed |-> {}, error |-> FALSE]
    ELSE LET one == BeginPatchEntry(ws, entries[i])
         IN  IF one.error THEN one
             ELSE LET rest == BeginPatchEntries(one.ws, entries, i + 1)
                  IN  [ws |-> rest.ws,
                       changed |-> IF rest.error THEN {}
                                   ELSE one.changed \cup rest.changed,
                       error |-> rest.error]

\* _apply_begin_patch: no entries raises; the entries are written one after
\* the other, and a raise leaves the earlier ones written.
_apply_begin_patch(ws, text) ==
    IF text.entries = <<>> THEN [ws |-> ws, changed |-> {}, error |-> TRUE]
    ELSE BeginPatchEntries(ws, text.entries, 1)

\* One entry under _apply_context_patch: the path is the +++ path, /dev/null
\* is skipped, a missing target raises.
ContextPatchEntry(ws, e) ==
    LET path == IF e.op = "move" THEN MoveTarget ELSE e.path
    IN  IF e.op = "delete" THEN [ws |-> ws, changed |-> {}, error |-> FALSE]
        ELSE IF ws[path] = Absent THEN [ws |-> ws, changed |-> {}, error |-> TRUE]
        ELSE IF e.op = "modify" /\ ws[path] # "old"
        THEN [ws |-> ws, changed |-> {}, error |-> TRUE]
        ELSE [ws |-> [ws EXCEPT ![path] = "new"], changed |-> {path},
              error |-> FALSE]

RECURSIVE ContextPatchEntries(_, _, _)
ContextPatchEntries(ws, entries, i) ==
    IF i > Len(entries) THEN [ws |-> ws, changed |-> {}, error |-> FALSE]
    ELSE LET one == ContextPatchEntry(ws, entries[i])
         IN  IF one.error THEN one
             ELSE LET rest == ContextPatchEntries(one.ws, entries, i + 1)
                  IN  [ws |-> rest.ws,
                       changed |-> IF rest.error THEN {}
                                   ELSE one.changed \cup rest.changed,
                       error |-> rest.error]

_apply_context_patch(ws, text) ==
    IF text.entries = <<>> THEN [ws |-> ws, changed |-> {}, error |-> TRUE]
    ELSE ContextPatchEntries(ws, text.entries, 1)

\* parse_unified_diff raises on a "---" line without a path (IndexError), on
\* a hunk header without counts (IndexError) and on a bare "@@" (ValueError).
ParseRaises(text) == text.form \in {"split_header", "short_header", "bare_header"}

\* changed_files of the utility path: the new_path of every file patch that
\* is not /dev/null.
NewPaths(text) ==
    { IF text.entries[i].op = "move" THEN MoveTarget ELSE text.entries[i].path :
          i \in { j \in 1..Len(text.entries) : text.entries[j].op # "delete" } }

\* The outcome of one apply_patch call: the ToolResult (status, error_type,
\* changed_files; status "<raised>" when an exception leaves the call), the
\* workspace after it, and what the call did on its way: the rewriting stages
\* and fallbacks it ran, its dry runs, what was applied to the workspace by
\* whom, and whether all of the patch took effect.
PatchOutcome(status, error_type, changed_files, ws, stages, dry_runs, applied, complete) ==
    [status |-> status, error_type |-> error_type,
     changed_files |-> changed_files, workspace |-> ws, stages |-> stages,
     dry_runs |-> dry_runs, applied |-> applied, complete |-> complete]

NoErrorType == "<None>"
PreStages ==
    {"_normalize_split_headers", "_normalize_patch_headers",
     "_normalize_hunk_prefixes", "_normalize_patch_paths"}

\* Rewriting that strict mode does not switch off.
RewritingEnabled_always(strict) == TRUE

\* `not strict_patch`, the condition on every rewriting stage and fallback.
RewritingEnabled(strict) == ~strict

apply_patch(ws, params, strict) ==
    IF strict /\ params.envelope
    THEN PatchOutcome("ERROR", "patch_hunk_fail", {}, ws, {}, <<>>, <<>>, FALSE)
    ELSE IF params.envelope
    THEN LET b == _apply_begin_patch(ws, params)
             applied == IF b.ws # ws
                        THEN <<[by |-> "_apply_begin_patch", text |-> params]>>
                        ELSE <<>>
         IN  IF b.error
             THEN PatchOutcome("ERROR", "patch_hunk_fail", {}, b.ws,
                               {"_apply_begin_patch"}, <<>>, applied, FALSE)
             ELSE PatchOutcome("SUCCESS", NoErrorType, b.changed, b.ws,
                               {"_apply_begin_patch"}, <<>>, applied, TRUE)
    ELSE
    LET rewriting == RewritingEnabled(strict)
        text1 == IF rewriting
                 THEN _normalize_patch_paths(_normalize_hunk_prefixes(
                          _normalize_patch_headers(
                              _normalize_split_headers(params))))
                 ELSE params
        dry1 == DryRun(ws, _write_patch(text1))
        try2 == ~dry1.ok /\ rewriting
        text2 == IF try2 THEN _normalize_hunk_counts(text1) ELSE text1
        redo2 == try2 /\ text2 # text1
        dry2 == IF redo2 THEN DryRun(ws, _write_patch(text2)) ELSE dry1
        try3 == ~dry2.ok /\ rewriting
        text3 == IF try3 THEN _normalize_noeof_markers(text2) ELSE text2
        redo3 == try3 /\ text3 # text2
        dry3 == IF redo3 THEN DryRun(ws, _write_patch(text3)) ELSE dry2
        dry_runs == <<dry1>> \o (IF redo2 THEN <<dry2>> ELSE <<>>)
                             \o (IF redo3 THEN <<dry3>> ELSE <<>>)
        stages == (IF rewriting THEN PreStages ELSE {})
                  \cup (IF try2 THEN {"_normalize_hunk_counts"} ELSE {})
                  \cup (IF try3 THEN {"_normalize_noeof_markers"} ELSE {})
    IN  IF ~dry3.ok /\ rewriting
        THEN IF _looks_like_context_patch(text3)
             THEN LET c == _apply_context_patch(ws, text3)
                      applied == IF c.ws # ws
                                 THEN <<[by |-> "_apply_context_patch", text |-> text3]>>
                                 ELSE <<>>
                      ran == stages \cup {"_apply_context_patch"}
                  IN  IF c.error
                      THEN PatchOutcome("ERROR", "patch_hunk_fail", {}, c.ws,
                                        ran, dry_runs, applied, FALSE)
                      ELSE PatchOutcome("SUCCESS", NoErrorType, c.changed, c.ws,
                                        ran, dry_runs, applied, TRUE)
             ELSE PatchOutcome("ERROR", "patch_hunk_fail", {}, ws, stages,
                               dry_runs, <<>>, FALSE)
        ELSE LET file == _write_patch(text3)
                 real == PatchUtility(ws, file)
                 applied == <<[by |-> "patch", text |-> file]>>
             IN  IF ParseRaises(text3)
                 THEN PatchOutcome("<raised>", NoErrorType, {}, real.ws, stages,
                                   dry_runs, applied, real.ok)
                 ELSE PatchOutcome("SUCCESS", NoErrorType, NewPaths(text3),
                                   real.ws, stages, dry_runs, applied, real.ok)

NoPatchResult == [status |-> "<idle>"]

InitPatch ==
    /\ OutsidePatchIdle
    /\ strict_patch \in BOOLEAN
    /\ unified_diff \in PatchTexts
    /\ workspace \in Workspaces
    /\ patch_result = NoPatchResult

\* One APPLY_PATCH call.
ApplyPatch ==
    /\ patch_result = NoPatchResult
    /\ LET o == apply_patch(workspace, unified_diff, strict_patch)
       IN  /\ workspace' = o.workspace
           /\ patch_result' = o
    /\ UNCHANGED <<strict_patch, unified_diff, outside_patch>>

NextPatch == ApplyPatch

SpecPatch == InitPatch /\ [][NextPatch]_vars

\* ---------------------------------------------------------------- C25
\* The call under strict mode that is about to run.
StrictCall == strict_patch /\ patch_result = NoPatchResult

\* C25: in strict patch mode no rewriting stage and no other dialect is used:
\* a Begin Patch envelope is rejected with the workspace unchanged, no
\* normaliser and no context-patch fallback runs, and the only text applied is
\* the caller's unified diff exactly as given.
C25_StrictAppliesTextAsGiven ==
    [][StrictCall =>
          /\ patch_result'.stages = {}
          /\ unified_diff.envelope =>
                /\ patch_result'.status = "ERROR"
                /\ patch_result'.applied = <<>>
                /\ workspace' = workspace
          /\ \A i \in 1..Len(patch_result'.applied) :
                /\ patch_result'.applied[i].by = "patch"
                /\ patch_result'.applied[i].text = unified_diff]_vars

\* C25, amended: as above, but the text applied is the caller's unified diff
\* with a final newline added when it lacks one.
C25_StrictAppliesTextNewlineTerminated ==
    [][StrictCall =>
          /\ patch_result'.stages = {}
          /\ unified_diff.envelope =>
                /\ patch_result'.status = "ERROR"
                /\ patch_result'.applied = <<>>
                /\ workspace' = workspace
          /\ \A i \in 1..Len(patch_result'.applied) :
                /\ patch_result'.applied[i].by = "patch"
                /\ patch_result'.applied[i].text =
                      [unified_diff EXCEPT !.terminated = TRUE]]_vars

\* Strict mode applied a unified diff that came without its final newline.
C25_Witness ==
    /\ strict_patch
    /\ patch_result.status = "SUCCESS"
    /\ patch_result.complete
    /\ ~unified_diff.envelope
    /\ ~unified_diff.terminated
    /\ Len(patch_result.applied) = 1
    /\ patch_result.applied[1].text.terminated
    /\ patch_result.stages = {}

\* ---------------------------------------------------------------- C26
\* C26: an APPLY_PATCH call changes a workspace file only after a dry run of
\* the patch utility on the very text it applies was made and succeeded,
\* whatever the dialect of the input.
C26_DryRunBeforeModification ==
    [][(patch_result = NoPatchResult /\ workspace' # workspace) =>
          \A i \in 1..Len(patch_result'.applied) :
              \E j \in 1..Len(patch_result'.dry_runs) :
                  /\ patch_result'.dry_runs[j].ok
                  /\ patch_result'.dry_runs[j].text = patch_result'.applied[i].text]_vars

\* ---------------------------------------------------------------- C27
\* C27: a patch that could not be applied (not all of it took effect) gives
\* an ERROR result of kind patch_hunk_fail: no other kind, no success, and
\* no exception leaving the engine.
C27_UnapplicableIsPatchHunkFail ==
    (patch_result # NoPatchResult /\ ~patch_result.complete) =>
        /\ patch_result.status = "ERROR"
        /\ patch_result.error_type = "patch_hunk_fail"

\* ---------------------------------------------------------------- C28
\* The workspace files whose content differs between two workspaces.
Touched(before, after) == { p \in WorkspacePaths : before[p] # after[p] }

\* C28: after a successful APPLY_PATCH whose patch took effect, changed_files
\* is exactly the set of files created, modified, deleted or moved.
C28_ChangedFilesAreTouchedFiles ==
    [][(patch_result = NoPatchResult
        /\ patch_result'.status = "SUCCESS" /\ patch_result'.complete) =>
          patch_result'.changed_files = Touched(workspace, workspace')]_vars

\* ------------------------------------------- concurrent runs, one event log
MaxRecords == 2        \* most records one run appends to the shared log

\* The runs that were given the same events_file path.
Runs == {1, 2}

\* The bytes of one record as the writes put them into the file: the j-th
\* record of a run, first part and rest (which ends with the newline).
Chunk(run, j, part) == <<run, j, part>>

\* EventLogger.__init__ of one run with clear_existing (the default):
\* events_file.unlink() when the file exists, without taking the lock.  The
\* runs that hold the file open keep writing to the unlinked file.
NewLogger(r) ==
    /\ writer_pc[r] = "new"
    /\ writer_pc' = [writer_pc EXCEPT ![r] = "idle"]
    /\ shared_file' = None
    /\ writer_fd' = IF shared_file = None THEN writer_fd
                    ELSE [w \in Runs |->
                            IF writer_fd[w] = "path" THEN "unlinked"
                            ELSE writer_fd[w]]
    /\ UNCHANGED <<lock_holder, appended, outside_writers>>

\* append_jsonl: `with lock`, the FileLock on <path>.lock.
AcquireLock(r) ==
    /\ writer_pc[r] = "idle"
    /\ appended[r] < MaxRecords
    /\ lock_holder = None
    /\ lock_holder' = Some(r)
    /\ writer_pc' = [writer_pc EXCEPT ![r] = "locked"]
    /\ UNCHANGED <<shared_file, writer_fd, appended, outside_writers>>

\* open(path, "ab"): the file is created when it is missing.
OpenAppend(r) ==
    /\ writer_pc[r] = "locked"
    /\ shared_file' = IF shared_file = None THEN Some(<<>>) ELSE shared_file
    /\ writer_fd' = [writer_fd EXCEPT ![r] = "path"]
    /\ writer_pc' = [writer_pc EXCEPT ![r] = "open"]
    /\ UNCHANGED <<lock_holder, appended, outside_writers>>

\* What a write at the end of the open file makes of the file at the path.
WriteAtEnd(r, chunk) ==
    IF writer_fd[r] = "path" /\ shared_file # None
    THEN Some(Append(CHOOSE content \in shared_file : TRUE, chunk))
    ELSE shared_file

\* f.write / f.flush: the first bytes of the line reach the file.
WriteHead(r) ==
    /\ writer_pc[r] = "open"
    /\ shared_file' = WriteAtEnd(r, Chunk(r, appended[r] + 1, "head"))
    /\ writer_pc' = [writer_pc EXCEPT ![r] = "half"]
    /\ UNCHANGED <<lock_holder, writer_fd, appended, outside_writers>>

\* The rest of the line, newline included, and os.fsync.
WriteTail(r) ==
    /\ writer_pc[r] = "half"
    /\ shared_file' = WriteAtEnd(r, Chunk(r, appended[r] + 1, "tail"))
    /\ writer_pc' = [writer_pc EXCEPT ![r] = "synced"]
    /\ UNCHANGED <<lock_holder, writer_fd, appended, outside_writers>>

\* The file is closed, the lock released, append_jsonl returns True.
ReleaseLock(r) ==
    /\ writer_pc[r] = "synced"
    /\ lock_holder' = None
    /\ writer_fd' = [writer_fd EXCEPT ![r] = "closed"]
    /\ appended' = [appended EXCEPT ![r] = @ + 1]
    /\ writer_pc' = [writer_pc EXCEPT ![r] = "idle"]
    /\ UNCHANGED <<shared_file, outside_writers>>

InitWriters ==
    /\ OutsideWritersIdle
    /\ shared_file \in {None, Some(<<>>)}
    /\ lock_holder = None
    /\ writer_pc = [r \in Runs |-> "new"]
    /\ writer_fd = [r \in Runs |-> "closed"]
    /\ appended = [r \in Runs |-> 0]

NextWriters ==
    \E r \in Runs :
        \/ NewLogger(r)
        \/ AcquireLock(r)
        \/ OpenAppend(r)
        \/ WriteHead(r)
        \/ WriteTail(r)
        \/ ReleaseLock(r)

SpecWriters == InitWriters /\ [][NextWriters]_vars

\* ---------------------------------------------------------------- C29
\* The record is in the file as one unbroken line.
WholeLine(content, run, j) ==
    \E i \in 1..(Len(content) - 1) :
        /\ content[i] = Chunk(run, j, "head")
        /\ content[i + 1] = Chunk(run, j, "tail")

\* C29: with several runs appending to one event log path, every record an
\* append has written is in the file afterwards as one complete, unbroken
\* line: none is lost, none is interleaved with another.
C29_ConcurrentAppendsAllPresent ==
    \A r \in Runs : \A j \in 1..appended[r] :
        /\ shared_file # None
        /\ WholeLine(CHOOSE content \in shared_file : TRUE, r, j)

\* ------------------------------------------- LLMAgentV0._parse_llm_response
MaxHistory == 3        \* longest state.tool_history given to _parse_llm_response

\* The files a LIST_FILES result may list and a READ_FILE request may name.
ListedFiles == {"f1.py", "f2.py"}

\* The files lists of LIST_FILES results: no file, one, or both in some order.
Listings ==
    {<<>>} \cup { <<f>> : f \in ListedFiles }
    \cup { l \in [1..2 -> ListedFiles] : l[1] # l[2] }

\* One (request, result) pair of state.tool_history, as far as the fallback
\* reads it: the tool, the path of a READ_FILE request, the files of a
\* LIST_FILES result.
HistoryEntries ==
    { [tool |-> "READ_FILE", path |-> f, files |-> <<>>] : f \in ListedFiles }
    \cup { [tool |-> "LIST_FILES", path |-> "", files |-> l] : l \in Listings }
    \cup { [tool |-> "RUN", path |-> "", files |-> <<>>] }

Histories == UNION { [1..n -> HistoryEntries] : n \in 0..MaxHistory }

\* What the model sent back: an error, a tool call (well-formed, with
\* arguments that are no JSON, or naming no known tool), a text holding a
\* unified diff, or any other text.
LLMResponses ==
    {"error", "tool_call", "tool_call_bad_json", "tool_call_unknown_tool",
     "diff", "text"}

ParsedAction(decision, tool, path, stop_reason) ==
    [decision |-> decision, tool |-> tool, path |-> path,
     stop_reason |-> stop_reason]

\* The paths of the READ_FILE requests of the history.
read_paths(tool_history) ==
    { tool_history[i].path :
          i \in { j \in 1..Len(tool_history) : tool_history[j].tool = "READ_FILE" } }

\* The files of the listing not in read.
Unread(files, read) == SelectSeq(files, LAMBDA f : f \notin read)

\* The choice among the files of a listing: those not yet read, and all of
\* them when none is left.
candidates(files, read) ==
    IF Unread(files, read) # <<>> THEN Unread(files, read) ELSE files

\* The for loop over reversed(state.tool_history), from entry i downwards.
RECURSIVE Fallback(_, _)
Fallback(tool_history, i) ==
    IF i = 0
    THEN ParsedAction("STOP", "<None>", "", "AGENT_GAVE_UP")
    ELSE IF tool_history[i].tool # "LIST_FILES" \/ tool_history[i].files = <<>>
    THEN Fallback(tool_history, i - 1)
    ELSE LET c == candidates(tool_history[i].files, read_paths(tool_history))
         IN  IF c # <<>>
             THEN ParsedAction("CALL_TOOL", "READ_FILE", c[1], NoStopReason)
             ELSE Fallback(tool_history, i - 1)

_parse_llm_response(response, tool_history) ==
    CASE response = "error" ->
           ParsedAction("STOP", "<None>", "", "LLM_ERROR")
      [] response \in {"tool_call_bad_json", "tool_call_unknown_tool"} ->
           ParsedAction("STOP", "<None>", "", "LLM_ERROR")
      [] response = "tool_call" ->
           ParsedAction("CALL_TOOL", "RUN", "", NoStopReason)
      [] response = "diff" ->
           ParsedAction("CALL_TOOL", "APPLY_PATCH", "", NoStopReason)
      [] response = "text" ->
           Fallback(tool_history, Len(tool_history))

NotParsed == [decision |-> "<unparsed>"]

InitParse ==
    /\ OutsideParseIdle
    /\ llm_response \in LLMResponses
    /\ llm_history \in Histories
    /\ llm_action = NotParsed

ParseLLMResponse ==
    /\ llm_action = NotParsed
    /\ llm_action' = _parse_llm_response(llm_response, llm_history)
    /\ UNCHANGED <<llm_response, llm_history, outside_parse>>

NextParse == ParseLLMResponse

SpecParse == InitParse /\ [][NextParse]_vars

\* ---------------------------------------------------------------- C30
\* The files of the latest LIST_FILES result that lists any, <<>> without one.
RECURSIVE PriorListing(_, _)
PriorListing(tool_history, i) ==
    IF i = 0 THEN <<>>
    ELSE IF tool_history[i].tool = "LIST_FILES" /\ tool_history[i].files # <<>>
    THEN tool_history[i].files
    ELSE PriorListing(tool_history, i - 1)

\* C30: for a response with neither tool call nor diff, the agent asks for
\* READ_FILE of the first file of the prior listing that was not read yet;
\* when every listed file was read, or there is no listing, it returns STOP
\* with AGENT_GAVE_UP.
C30_FallbackReadsFirstUnreadOrGivesUp ==
    (llm_response = "text" /\ llm_action # NotParsed) =>
        LET unread == Unread(PriorListing(llm_history, Len(llm_history)),
                             read_paths(llm_history))
        IN  IF unread # <<>>
            THEN llm_action = ParsedAction("CALL_TOOL", "READ_FILE", unread[1],
                                          NoStopReason)
            ELSE llm_action = ParsedAction("STOP", "<None>", "", "AGENT_GAVE_UP")

\* --------------------------------------------- validate_baseline, by stage
\* The stages of validate_baseline in the order of its code.
StageOrder_hints_first ==
    <<"git_clone", "git_checkout", "setup", "worktree_check", "hint_check",
      "baseline_run", "baseline_rerun">>

StageOrder ==
    <<"git_clone", "git_checkout", "setup", "worktree_check", "baseline_run",
      "hint_check", "baseline_rerun">>

\* What one stage does with the facts x of the run: None when it passes (the
\* code goes on), or the ValidationResult of the RuntimeError it raises.
StageOutcome(stage, x) ==
    CASE stage = "git_clone" ->
           IF x.clone_exit # 0
           THEN Some(ValidationResult(FALSE, x.clone_exit, "GIT_CLONE_FAILED"))
           ELSE None
      [] stage = "git_checkout" ->
           IF x.checkout_exit # 0
           THEN Some(ValidationResult(FALSE, x.checkout_exit, "GIT_CHECKOUT_FAILED"))
           ELSE None
      [] stage = "setup" ->
           IF x.setup_exit # 0
           THEN Some(ValidationResult(FALSE, x.setup_exit,
                        IF x.setup_exit = 124 THEN "SETUP_TIMEOUT"
                        ELSE "SETUP_FAILED"))
           ELSE None
      [] stage = "worktree_check" ->
           IF x.inspect_exit # 0
           THEN Some(ValidationResult(FALSE, x.inspect_exit, "UNKNOWN"))
           ELSE IF x.dirty
           THEN Some(ValidationResult(FALSE, x.setup_exit, "SETUP_DIRTY_WORKTREE"))
           ELSE None
      [] stage = "baseline_run" ->
           IF x.run_exit = 0
           THEN Some(ValidationResult(FALSE, x.run_exit, "BASELINE_NOT_FAILING"))
           ELSE IF from_pytest_exit_code(x.run_exit) \notin {"<None>", "TESTS_FAILED"}
           THEN Some(ValidationResult(FALSE, x.run_exit,
                                      from_pytest_exit_code(x.run_exit)))
           ELSE None
      [] stage = "hint_check" ->
           IF x.mismatch
           THEN Some(ValidationResult(FALSE, x.run_exit, "BASELINE_MISMATCH"))
           ELSE None
      [] stage = "baseline_rerun" ->
           IF /\ x.rerun_exit # None
              /\ \/ x.rerun_exit # Some(x.run_exit)
                 \/ _failure_signature(x.rerun_output) # _failure_signature(x.run_output)
           THEN Some(ValidationResult(FALSE, CHOOSE c \in x.rerun_exit : TRUE,
                                      "BASELINE_FLAKY"))
           ELSE None

InitStages ==
    /\ OutsideStagesIdle
    /\ baseline_input \in BaselineRuns(TRUE)
    /\ stages_run = <<>>
    /\ baseline_result = NoValidation

\* The next stage of the try block: it raises and the function returns the
\* failure, or it passes and the next stage follows; after the last stage
\* attempt.valid = True.
RunStage ==
    /\ baseline_result = NoValidation
    /\ Len(stages_run) < Len(StageOrder)
    /\ LET stage == StageOrder[Len(stages_run) + 1]
           raised == StageOutcome(stage, baseline_input)
       IN  /\ stages_run' = Append(stages_run, stage)
           /\ baseline_result' =
                 IF raised # None THEN CHOOSE v \in raised : TRUE
                 ELSE IF Len(stages_run) + 1 = Len(StageOrder)
                 THEN ValidationResult(TRUE, baseline_input.run_exit, "<None>")
                 ELSE NoValidation
    /\ UNCHANGED <<baseline_input, outside_stages>>

NextStages == RunStage

SpecStages == InitStages /\ [][NextStages]_vars

\* ---------------------------------------------------------------- C31
\* The order of the stages as the claim gives it.
ClaimedOrder ==
    <<"git_clone", "git_checkout", "setup", "worktree_check", "baseline_run",
      "hint_check", "baseline_rerun">>

\* The failure kinds a stage may report.
KindsOf(stage) ==
    CASE stage = "git_clone" -> {"GIT_CLONE_FAILED"}
      [] stage = "git_checkout" -> {"GIT_CHECKOUT_FAILED"}
      [] stage = "setup" -> {"SETUP_FAILED", "SETUP_TIMEOUT"}
      [] stage = "worktree_check" -> {"UNKNOWN", "SETUP_DIRTY_WORKTREE"}
      [] stage = "baseline_run" ->
           {"BASELINE_NOT_FAILING", "COLLECTION_ERROR", "INTERNAL_ERROR",
            "USAGE_ERROR", "NO_TESTS_COLLECTED", "INTERRUPTED"}
      [] stage = "hint_check" -> {"BASELINE_MISMATCH"}
      [] stage = "baseline_rerun" -> {"BASELINE_FLAKY"}

\* The stage's commands did not come out as a valid baseline needs them.
StageFailed(stage, x) ==
    CASE stage = "git_clone" -> x.clone_exit # 0
      [] stage = "git_checkout" -> x.checkout_exit # 0
      [] stage = "setup" -> x.setup_exit # 0
      [] stage = "worktree_check" -> x.inspect_exit # 0 \/ x.dirty
      [] stage = "baseline_run" -> x.run_exit # 1
      [] stage = "hint_check" -> x.mismatch
      [] stage = "baseline_rerun" ->
           /\ x.rerun_exit # None
           /\ \/ x.rerun_exit # Some(x.run_exit)
              \/ _failure_signature(x.rerun_output) # _failure_signature(x.run_output)

\* C31: the stages run in the order clone, checkout, setup, worktree check,
\* test run, hint check, rerun; the first stage that fails gives the one
\* failure kind reported and is the last stage executed; valid is true only
\* when every stage was executed and passed.
C31_StagesInOrderFirstFailureReported ==
    /\ stages_run = SubSeq(ClaimedOrder, 1, Len(stages_run))
    /\ \A i \in 1..(Len(stages_run) - 1) :
           ~StageFailed(stages_run[i], baseline_input)
    /\ baseline_result # NoValidation =>
          LET last == stages_run[Len(stages_run)]
          IN  IF baseline_result.valid
              THEN /\ stages_run = ClaimedOrder
                   /\ ~StageFailed(last, baseline_input)
                   /\ baseline_result.error_reason = "<None>"
              ELSE /\ StageFailed(last, baseline_input)
                   /\ baseline_result.error_reason \in KindsOf(last)
    /\ baseline_result = NoValidation =>
          (stages_run # <<>> =>
              ~StageFailed(stages_run[Len(stages_run)], baseline_input))

\* The hint check failed after clone, checkout, setup, worktree check and test
\* run had passed, and the rerun was not made.
C31_Witness ==
    /\ stages_run = SubSeq(ClaimedOrder, 1, 6)
    /\ baseline_result.error_reason = "BASELINE_MISMATCH"
    /\ ~baseline_result.valid
    /\ StageFailed("baseline_rerun", baseline_input)
    /\ baseline_result = validate_baseline(baseline_input)

\* ------------------------------------------- OpenRouterClient.complete
MaxRetries == 2

\* How one HTTP attempt can come out: a 200 answer that parses, a 200 body
\* that is not JSON, a 200 body that fails the response schema, a status other
\* than 200, or an exception of the HTTP library or of anything else.
HttpOutcomes ==
    {"ok", "not_json", "schema_invalid", "401", "402", "403", "429", "500",
     "502", "503", "404", "timeout", "request_error", "exception"}

LLMErrorOf(error_type, retryable) ==
    [error_type |-> error_type, retryable |-> retryable]

\* error_map.get(status_code, (PROVIDER_ERROR, True))
_classify_error(status_code) ==
    CASE status_code \in {"401", "402", "403"} -> LLMErrorOf("AUTH_FAILED", FALSE)
      [] status_code = "429" -> LLMErrorOf("RATE_LIMITED", TRUE)
      [] status_code \in {"500", "502", "503"} -> LLMErrorOf("PROVIDER_ERROR", TRUE)
      [] OTHER -> LLMErrorOf("PROVIDER_ERROR", TRUE)

\* The error the except branches of one attempt leave in `error`.
AttemptError(outcome) ==
    CASE outcome = "not_json" -> LLMErrorOf("INVALID_RESPONSE", TRUE)
      [] outcome = "schema_invalid" -> LLMErrorOf("INVALID_RESPONSE", FALSE)
      [] outcome = "timeout" -> LLMErrorOf("TIMEOUT", TRUE)
      [] outcome = "request_error" -> LLMErrorOf("NETWORK_ERROR", TRUE)
      [] outcome = "exception" -> LLMErrorOf("PROVIDER_ERROR", FALSE)
      [] OTHER -> _classify_error(outcome)

\* if not error.retryable or attempt >= max_attempts: raise error
RaisesNow_last_attempt_only(error, n, max_attempts) ==
    n >= max_attempts

RaisesNow(error, n, max_attempts) ==
    ~error.retryable \/ n >= max_attempts

CompleteReturned == [kind |-> "returned"]

CompleteRaised(error) == [kind |-> "raised", error |-> error]

InitRetry ==
    /\ OutsideRetryIdle
    /\ max_retries \in 0..MaxRetries
    /\ http_attempts = <<>>
    /\ complete_result = <<>>

\* One pass of the while loop: attempt += 1, the request, and what follows it:
\* return result, raise error, or sleep and go round again.
HttpAttempt ==
    /\ complete_result = <<>>
    /\ Len(http_attempts) < max_retries + 1
    /\ \E outcome \in HttpOutcomes :
          LET n == Len(http_attempts) + 1
              error == AttemptError(outcome)
          IN  /\ http_attempts' = Append(http_attempts, outcome)
              /\ complete_result' =
                    IF outcome = "ok" THEN CompleteReturned
                    ELSE IF RaisesNow(error, n, max_retries + 1)
                    THEN CompleteRaised(error)
                    ELSE <<>>
    /\ UNCHANGED <<max_retries, outside_retry>>

NextRetry == HttpAttempt

SpecRetry == InitRetry /\ [][NextRetry]_vars

\* ---------------------------------------------------------------- C32
\* The attempt ended in an error that is marked retryable.
RetryableFailure(outcome) ==
    outcome # "ok" /\ AttemptError(outcome).retryable

\* C32: one complete call makes at most max_retries + 1 HTTP attempts; every
\* attempt but the last made ended in an error marked retryable; the call has
\* returned exactly when its last attempt succeeded, and has raised that
\* attempt's error when the last attempt ended in a non-retryable error or was
\* attempt number max_retries + 1 and failed.
C32_RetriesBoundedAndOnlyAfterRetryable ==
    LET n == Len(http_attempts)
    IN  /\ n <= max_retries + 1
        /\ \A i \in 1..(n - 1) : RetryableFailure(http_attempts[i])
        /\ complete_result = CompleteReturned <=> (n > 0 /\ http_attempts[n] = "ok")
        /\ n > 0 /\ http_attempts[n] # "ok" =>
              IF ~RetryableFailure(http_attempts[n]) \/ n = max_retries + 1
              THEN complete_result = CompleteRaised(AttemptError(http_attempts[n]))
              ELSE complete_result = <<>>
        /\ n = 0 => complete_result = <<>>

\* Two retryable errors were retried and the third attempt, the last one
\* allowed, failed too, so its error was raised.
C32_Witness ==
    /\ max_retries = 2
    /\ http_attempts = <<"timeout", "429", "request_error">>
    /\ complete_result = CompleteRaised(LLMErrorOf("NETWORK_ERROR", TRUE))

\* ---------------------------------------------------------------- C33
\* AgentLoop.run has returned a result.
LoopReturned == pc = "returned" /\ task.entrypoint # "scripted"

\* C33: in every result the loop returns, steps_taken equals the number of
\* tool executions of the run, the call whose error ended the run included,
\* and equals the length of the tool history.
C33_StepsTakenCountsToolExecutions ==
    LoopReturned =>
        /\ result.steps_taken = tool_started
        /\ result.steps_taken = Len(state.tool_history)

\* The second tool call failed and ended the run: both calls are counted.
C33_Witness ==
    /\ LoopReturned
    /\ ret_site = "tool_error"
    /\ tool_started = 2
    /\ result.steps_taken = 2
    /\ Len(state.tool_history) = 2

\* ---------------------------------------------------------------- C35
\* C35: every AgentResult the loop returns has success true exactly when
\* stop_reason is SUCCESS, final_test_passed true exactly when
\* final_test_exit_code is 0, and final_test_passed true whenever success is.
C35_ResultInternallyConsistent ==
    LoopReturned =>
        /\ result.success <=> result.stop_reason = "SUCCESS"
        /\ result.final_test_passed <=> result.final_test_exit_code = Some(0)
        /\ result.success => result.final_test_passed

\* ---------------------------------------------------------------- C36
\* Where AgentLoop.run is while it has not returned.
LoopPcs == {"start", "check", "decide", "execute", "auto_run"}

\* What is left of the run: four for every step of the budget and the place in
\* the iteration; the loop's own test run comes after the step was paid for.
LoopMeasure ==
    CASE pc = "start" -> 4 * budget.max_steps + 5
      [] pc = "check" -> 4 * state.budget_remaining_steps + 3
      [] pc = "decide" -> 4 * state.budget_remaining_steps + 2
      [] pc = "execute" -> 4 * state.budget_remaining_steps + 1
      [] pc = "auto_run" -> 4 * state.budget_remaining_steps + 4
      [] OTHER -> 0

\* A step of the run that has not returned stays in the loop or returns, and
\* brings the measure down without passing zero.
LoopStepDecreases ==
    pc \in LoopPcs =>
        /\ pc' \in LoopPcs \cup {"returned"}
        /\ LoopMeasure' < LoopMeasure
        /\ LoopMeasure' >= 0

\* C36: agent.decide is called at most max_steps times in one run, and every
\* step of a run that has not returned (every call returning) stays in the loop
\* or returns a result and brings the bounded measure down, so the run returns
\* and cannot iterate forever.
C36_ReturnsWithinMaxStepsIterations ==
    /\ [](decide_calls <= budget.max_steps)
    /\ [][LoopStepDecreases]_vars

\* The run used its whole step budget on decide-execute iterations and was
\* ended by the stop check.
C36_Witness ==
    /\ LoopReturned
    /\ budget.max_steps = 2
    /\ decide_calls = 2
    /\ result.stop_reason = "MAX_STEPS"

\* ---------------------------------------------------------------- C34
\* C34: once the run is over, every tool_call_started record of the event log
\* is followed by a tool_call_finished record with the same request id.
C34_StartedIsFinishedBeforeRunEnds ==
    pc \in {"returned", "raised"} =>
        LET file == event_logger.file
        IN  \A i \in 1..Len(file) :
                file[i].event_type = "tool_call_started" =>
                    \E j \in (i + 1)..Len(file) :
                        IsEvent(file[j], "tool_call_finished", file[i].request_id)

\* ---------------------------------------------------------------- C40
\* run_agent_attempt has built the attempt record.
AttemptRecorded == pc \in {"returned", "raised"}

C40_WitnessPassed ==
    /\ pc = "returned"
    /\ tool_started > 0
    /\ attempt.passed
    /\ attempt.failure_reason = "<None>"

\* ---------------------------------------------------------------- C37
\* An APPLY_PATCH call that returned an error result left the workspace as
\* it was.
ErrorLeavesWorkspace ==
    (patch_result = NoPatchResult /\ patch_result'.status = "ERROR") =>
        workspace' = workspace

\* C37: whenever APPLY_PATCH returns an error result the workspace is exactly
\* as it was before the call, for every patch dialect and for patches of
\* several files that fail part-way.
C37_ErrorResultLeavesWorkspaceUnchanged == [][ErrorLeavesWorkspace]_vars

\* ---------------------------------------------------------------- C38
\* C38: the recorded network state of a persistent sandbox equals the
\* attachment docker has for its container, and no command asked for with
\* network none ran in a container attached to the bridge.
C38_RecordedNetworkIsActual ==
    /\ \A c \in container_id :
          c \in DOMAIN docker_containers => docker_containers[c] = _network_state
    /\ \A i \in 1..Len(exec_history) :
          exec_history[i].network = Some("none") =>
              exec_history[i].ran_in # "bridge"

\* ---------------------------------------------------------------- C39
\* The containers docker holds are the one the sandbox knows, if any.
OwnsWhatItHolds ==
    /\ Cardinality(DOMAIN docker_containers) <= 1
    /\ DOMAIN docker_containers = container_id

\* While the sandbox has a container no step gives it another; a container it
\* gets is one docker has just started; and a command that runs, runs in the
\* container docker holds.
ContainerStep ==
    /\ (container_id # None /\ container_id' # None) => container_id' = container_id
    /\ (container_id = None /\ container_id' # None) =>
          /\ container_id' = Some(docker_started + 1)
          /\ docker_started' = docker_started + 1
    /\ Len(exec_history') > Len(exec_history) =>
          LET e == exec_history'[Len(exec_history')]
          IN  e.ran_in # NotRun => Some(e.container) = DOMAIN docker_containers'

====
